---- MODULE Spec2Model ----
(***************************************************************************)
(* Model of the normalization, data-quality and scoring engine of          *)
(* src/3-3_fmp_new.py: merge_financial_statements, validate_financial_data,*)
(* analyze_data_quality, the four scoring models and                       *)
(* prepare_comprehensive_analysis_data.                                    *)
(*                                                                         *)
(* Representation.                                                         *)
(*   - A JSON/Python dict is a function from key strings to values; a key  *)
(*     that is absent from the dict is absent from the DOMAIN.             *)
(*   - A numeric value n is the one-element tuple <<n>>, Python's None is  *)
(*     the empty tuple <<>>, so that "key present with null" and "key      *)
(*     absent" are different inputs, as they are for dict.get.             *)
(*   - 'date' values are ISO date strings of one width in the program;     *)
(*     their lexicographic order is the order of the integers that stand   *)
(*     for them here.                                                      *)
(*   - A quotient computed by Python's true division is the exact rational *)
(*     <<num, den>> in lowest terms with den > 0 (floating-point rounding  *)
(*     is not modelled).                                                   *)
(*   - A Python exception caught by a model's try/except is the result     *)
(*     [error |-> "exception"]; the text of the message is not modelled.   *)
(***************************************************************************)
EXTENDS Integers, Sequences, FiniteSets, TLC

VARIABLES
    pc,            \* position in the analysis flow
    income,        \* income_data      (raw income-statement records)
    balance,       \* balance_data     (raw balance-sheet records)
    cashflow,      \* cash_flow_data   (raw cash-flow records)
    enterprise,    \* fmp_data['enterprise_values']
    fin,           \* fmp_data['financial_statements'] (merged records)
    quality,       \* data_quality       of prepare_comprehensive_analysis_data
    validation,    \* validation_result
    piotroski,     \* piotroski_results
    zscore,        \* zscore_results
    dupont,        \* dupont_results
    cashres,       \* cashflow_results
    bundle         \* what prepare_comprehensive_analysis_data hands to its caller

vars == <<pc, income, balance, cashflow, enterprise, fin, quality, validation,
          piotroski, zscore, dupont, cashres, bundle>>

(***************************************************************************)
(* Values                                                                  *)
(***************************************************************************)
None == <<>>

Num(n) == <<n>>

IsNone(v) == v = None

Val(v) == v[1]

\* dict.get(key, default)
Get(item, key, default) == IF key \in DOMAIN item THEN item[key] ELSE default

\* Python truthiness of a number or None: `not x` is true for None and 0
Falsy(v) == IsNone(v) \/ v = Num(0)

Abs(n) == IF n < 0 THEN -n ELSE n

Min(a, b) == IF a < b THEN a ELSE b

RECURSIVE GCD(_, _)
GCD(a, b) == IF b = 0 THEN a ELSE GCD(b, a % b)

\* the rational n/d (d # 0) in lowest terms with a positive denominator
Rat(n, d) ==
    LET g == GCD(Abs(n), Abs(d))
        s == IF d < 0 THEN -1 ELSE 1
    IN  <<(s * n) \div g, (s * d) \div g>>

RatInt(n) == <<n, 1>>

RatAdd(x, y) == Rat(x[1] * y[2] + y[1] * x[2], x[2] * y[2])

RatSub(x, y) == Rat(x[1] * y[2] - y[1] * x[2], x[2] * y[2])

RatMul(x, y) == Rat(x[1] * y[1], x[2] * y[2])

RatAbs(x) == <<Abs(x[1]), x[2]>>

RatGT(x, y) == x[1] * y[2] > y[1] * x[2]

RatGE(x, y) == x[1] * y[2] >= y[1] * x[2]

RatLT(x, y) == x[1] * y[2] < y[1] * x[2]

\* `a / b if b != 0 else 0` on values: the quotient, 0 when b == 0
\* (b is compared first; a is not touched when b == 0)
SafeDiv(a, b) == IF b = Num(0) THEN RatInt(0) ELSE Rat(Val(a), Val(b))

\* ... and whether evaluating it raises TypeError: None != 0 is True, and
\* then None / x or x / None raises
SafeDivRaises(a, b) == b # Num(0) /\ (IsNone(a) \/ IsNone(b))

(***************************************************************************)
(* merge_financial_statements                                              *)
(***************************************************************************)
\* (variant: each field taken out of its item, as item.pop(key, 0) does)
AfterPop(data) == [i \in 1..Len(data) |-> [date |-> data[i].date]]

\* a collection after the merge has used it: the merge applies item['date'],
\* item.get(key, 0) and `key in item` to its items, none of which changes
\* them
AfterRead(data) == data

\* (variant: the first item of each collection indexed, as data[0] does)
MergeRaisesOnEmpty(income_data, balance_data, cash_flow_data) ==
    \/ \E data \in {income_data, balance_data, cash_flow_data} : data = <<>>
    \/ \E data \in {income_data, balance_data, cash_flow_data} :
           \E i \in 1..Len(data) : "date" \notin DOMAIN data[i]

\* item['date'] raises KeyError on an item without that key; the except
\* clause raises Exception to the caller
MergeRaises(income_data, balance_data, cash_flow_data) ==
    \E data \in {income_data, balance_data, cash_flow_data} :
        \E i \in 1..Len(data) : "date" \notin DOMAIN data[i]

\* {item['date']: item for item in data}: the keys ...
DateKeys(data) == {data[i].date : i \in 1..Len(data)}

\* ... and the item kept for a key: a later item replaces an earlier one
ByDate(data, d) ==
    LET idx == {i \in 1..Len(data) : data[i].date = d}
    IN  data[CHOOSE i \in idx : \A j \in idx : j <= i]

CommonDates(inc, bal, cf) == DateKeys(inc) \cap DateKeys(bal) \cap DateKeys(cf)

\* (variant: the sort without reverse=True)
RECURSIVE SortedAsc(_)
SortedAsc(S) ==
    IF S = {} THEN <<>>
    ELSE LET m == CHOOSE x \in S : \A y \in S : x <= y
         IN  <<m>> \o SortedAsc(S \ {m})

\* sorted(S, reverse=True)
RECURSIVE SortedDesc(_)
SortedDesc(S) ==
    IF S = {} THEN <<>>
    ELSE LET m == CHOOSE x \in S : \A y \in S : y <= x
         IN  <<m>> \o SortedDesc(S \ {m})

\* (variant: item.get(primary, 0) alone)
PrimaryOnly(item, primary, alternate) == Get(item, primary, Num(0))

\* `item.get(primary, 0) if primary in item else item.get(alternate, 0)`
PrimaryOrAlternate(item, primary, alternate) ==
    IF primary \in DOMAIN item THEN Get(item, primary, Num(0))
    ELSE Get(item, alternate, Num(0))

MergedItem(date, income_item, balance_item, cash_flow_item) ==
    [ date |-> date,
      symbol |-> Get(income_item, "symbol", ""),
      period |-> Get(income_item, "period", ""),
      revenues |-> Get(income_item, "revenue", Num(0)),
      grossprofit |-> Get(income_item, "grossProfit", Num(0)),
      operatingincomeloss |-> Get(income_item, "operatingIncome", Num(0)),
      netincomeloss |-> Get(income_item, "netIncome", Num(0)),
      interestexpensenonoperating |-> Get(income_item, "interestExpense", Num(0)),
      incomelossfromcontinuingoperationsbeforeincometaxes |->
          Get(income_item, "incomeBeforeTax", Num(0)),
      weightedaveragenumberofsharesoutstandingbasic |->
          Get(income_item, "weightedAverageShsOut", Num(0)),
      assets |-> Get(balance_item, "totalAssets", Num(0)),
      liabilities |-> Get(balance_item, "totalLiabilities", Num(0)),
      stockholdersequity |-> Get(balance_item, "totalStockholdersEquity", Num(0)),
      assetscurrent |-> Get(balance_item, "totalCurrentAssets", Num(0)),
      liabilitiescurrent |-> Get(balance_item, "totalCurrentLiabilities", Num(0)),
      retainedearningsaccumulateddeficit |-> Get(balance_item, "retainedEarnings", Num(0)),
      longtermdebtnoncurrent |-> Get(balance_item, "longTermDebt", Num(0)),
      netcashprovidedbyusedinoperatingactivities |->
          PrimaryOrAlternate(cash_flow_item, "netCashProvidedByOperatingActivities",
                             "operatingCashFlow"),
      netcashprovidedbyusedininvestingactivities |->
          PrimaryOrAlternate(cash_flow_item, "netCashProvidedByInvestingActivities",
                             "netCashUsedForInvestingActivites"),
      netcashprovidedbyusedinfinancingactivities |->
          PrimaryOrAlternate(cash_flow_item, "netCashProvidedByFinancingActivities",
                             "netCashUsedProvidedByFinancingActivities"),
      paymentstoacquireproductiveassets |-> Get(cash_flow_item, "capitalExpenditure", Num(0)),
      purchasesofpropertyandequipmentandintangibleassets |->
          Get(cash_flow_item, "capitalExpenditure", Num(0)) ]

merge_financial_statements(income_data, balance_data, cash_flow_data) ==
    LET dates == SortedDesc(CommonDates(income_data, balance_data, cash_flow_data))
    IN  [i \in 1..Len(dates) |->
            MergedItem(dates[i], ByDate(income_data, dates[i]),
                       ByDate(balance_data, dates[i]),
                       ByDate(cash_flow_data, dates[i]))]

(***************************************************************************)
(* validate_financial_data                                                 *)
(***************************************************************************)
required_fields == <<"netincomeloss", "assets", "revenues", "stockholdersequity">>

\* year = year_data.get('date', ...) ; the issues one period contributes, in
\* the order the loop body appends them
RECURSIVE MissingIssues(_, _)
MissingIssues(year_data, k) ==
    IF k > Len(required_fields) THEN <<>>
    ELSE (IF IsNone(Get(year_data, required_fields[k], None))
          THEN <<[kind |-> "missing", field |-> required_fields[k], year |-> year_data.date]>>
          ELSE <<>>)
         \o MissingIssues(year_data, k + 1)

\* (variant: `<` for `<=`)
AssetsIssueStrict(year_data) ==
    IF Val(Get(year_data, "assets", Num(0))) < 0
    THEN <<[kind |-> "anomaly", field |-> "assets", year |-> year_data.date]>>
    ELSE <<>>

\* assets = year_data.get('assets', 0); if assets <= 0: ...
AssetsIssue(year_data) ==
    IF Val(Get(year_data, "assets", Num(0))) <= 0
    THEN <<[kind |-> "anomaly", field |-> "assets", year |-> year_data.date]>>
    ELSE <<>>

\* revenues = year_data.get('revenues', 0); if revenues < 0: ...
RevenuesIssue(year_data) ==
    IF Val(Get(year_data, "revenues", Num(0))) < 0
    THEN <<[kind |-> "anomaly", field |-> "revenues", year |-> year_data.date]>>
    ELSE <<>>

YearIssues(year_data) ==
    MissingIssues(year_data, 1) \o AssetsIssue(year_data) \o RevenuesIssue(year_data)

RECURSIVE ValidationWarnings(_, _)
ValidationWarnings(financial_data, i) ==
    IF i > Len(financial_data) THEN <<>>
    ELSE YearIssues(financial_data[i]) \o ValidationWarnings(financial_data, i + 1)

\* `assets <= 0` and `revenues < 0` raise TypeError on None; the function has
\* no try/except
ValidateRaises(financial_data) ==
    \E i \in 1..Len(financial_data) :
        \/ IsNone(Get(financial_data[i], "assets", Num(0)))
        \/ IsNone(Get(financial_data[i], "revenues", Num(0)))

\* (variant: the comparisons inside a try/except that reports the failure as
\* a warning)
validate_with_try(financial_data) ==
    IF Len(financial_data) = 0 THEN [verdict |-> "no data"]
    ELSE IF ValidateRaises(financial_data)
    THEN [verdict |-> "warnings", warnings |-> <<[kind |-> "failure"]>>]
    ELSE LET warnings == ValidationWarnings(financial_data, 1)
         IN  IF warnings # <<>>
             THEN [verdict |-> "warnings", warnings |-> warnings]
             ELSE [verdict |-> "validated"]

\* (variant: the loop entered without the empty-input check)
validate_without_empty_check(financial_data) ==
    IF ValidateRaises(financial_data) THEN [raised |-> "TypeError"]
    ELSE LET warnings == ValidationWarnings(financial_data, 1)
         IN  IF warnings # <<>>
             THEN [verdict |-> "warnings", warnings |-> warnings]
             ELSE [verdict |-> "validated"]

validate_financial_data(financial_data) ==
    IF Len(financial_data) = 0 THEN [verdict |-> "no data"]
    ELSE IF ValidateRaises(financial_data) THEN [raised |-> "TypeError"]
    ELSE LET warnings == ValidationWarnings(financial_data, 1)
         IN  IF warnings # <<>>
             THEN [verdict |-> "warnings", warnings |-> warnings]
             ELSE [verdict |-> "validated"]

(***************************************************************************)
(* analyze_data_quality                                                    *)
(***************************************************************************)
critical_fields == <<"netincomeloss", "assets", "revenues", "stockholdersequity">>

\* (variant: only `year_data.get(field) == 0`)
RECURSIVE ZeroYears(_, _, _)
ZeroYears(financial_data, field, i) ==
    IF i > Len(financial_data) THEN <<>>
    ELSE (IF Get(financial_data[i], field, None) = Num(0)
          THEN <<financial_data[i].date>> ELSE <<>>)
         \o ZeroYears(financial_data, field, i + 1)

\* year_data.get(field) is None or year_data.get(field) == 0
RECURSIVE MissingYears(_, _, _)
MissingYears(financial_data, field, i) ==
    IF i > Len(financial_data) THEN <<>>
    ELSE (IF Falsy(Get(financial_data[i], field, None))
          THEN <<financial_data[i].date>> ELSE <<>>)
         \o MissingYears(financial_data, field, i + 1)

RECURSIVE MissingFields(_, _)
MissingFields(financial_data, k) ==
    IF k > Len(critical_fields) THEN <<>>
    ELSE (IF MissingYears(financial_data, critical_fields[k], 1) # <<>>
          THEN <<[field |-> critical_fields[k],
                  years |-> MissingYears(financial_data, critical_fields[k], 1)]>>
          ELSE <<>>)
         \o MissingFields(financial_data, k + 1)

\* (variant: only `not enterprise_data`)
NoMarketData(enterprise_data) == Len(enterprise_data) = 0

\* not enterprise_data or not enterprise_data[0].get('marketCapitalization')
NoMarketCap(enterprise_data) ==
    \/ Len(enterprise_data) = 0
    \/ Falsy(Get(enterprise_data[1], "marketCapitalization", None))

QualityWarnings(financial_data, enterprise_data) ==
    (IF Len(financial_data) < 2 THEN <<"fewer than 2 periods">> ELSE <<>>)
    \o (IF NoMarketCap(enterprise_data) THEN <<"no market capitalization">> ELSE <<>>)

analyze_data_quality(financial_data, enterprise_data) ==
    LET missing == MissingFields(financial_data, 1)
        warns == QualityWarnings(financial_data, enterprise_data)
    IN  [ completeness |-> IF missing # <<>> \/ warns # <<>>
                           THEN "partially-missing" ELSE "good",
          year_count |-> Len(financial_data),
          missing_fields |-> missing,
          warnings |-> warns ]

(***************************************************************************)
(* calculate_piotroski_fscore                                              *)
(***************************************************************************)
\* (variant: a zero denominator replaced by 1)
RatioOverOne(year, num, den) ==
    IF Get(year, den, Num(0)) # Num(0)
    THEN Rat(Val(Get(year, num, Num(0))), Val(Get(year, den, Num(1))))
    ELSE Rat(Val(Get(year, num, Num(0))), 1)

\* `year.get(num, 0) / year.get(den, 1) if year.get(den, 0) != 0 else 0`
Ratio(year, num, den) ==
    IF Get(year, den, Num(0)) # Num(0)
    THEN Rat(Val(Get(year, num, Num(0))), Val(Get(year, den, Num(1))))
    ELSE RatInt(0)

RatioRaises(year, num, den) ==
    /\ Get(year, den, Num(0)) # Num(0)
    /\ IsNone(Get(year, num, Num(0))) \/ IsNone(Get(year, den, Num(1)))

\* the TypeErrors of the function body, all caught by its try/except:
\* a None operand of a division that is carried out, or of a comparison
PiotroskiRaises(current_year, previous_year) ==
    \/ RatioRaises(current_year, "netincomeloss", "assets")
    \/ IsNone(Get(current_year, "netcashprovidedbyusedinoperatingactivities", Num(0)))
    \/ RatioRaises(previous_year, "netincomeloss", "assets")
    \/ IsNone(Get(current_year, "netincomeloss", Num(0)))
    \/ RatioRaises(current_year, "longtermdebtnoncurrent", "assets")
    \/ RatioRaises(previous_year, "longtermdebtnoncurrent", "assets")
    \/ RatioRaises(current_year, "assetscurrent", "liabilitiescurrent")
    \/ RatioRaises(previous_year, "assetscurrent", "liabilitiescurrent")
    \/ IsNone(Get(current_year, "weightedaveragenumberofsharesoutstandingbasic", Num(0)))
    \/ IsNone(Get(previous_year, "weightedaveragenumberofsharesoutstandingbasic", Num(0)))
    \/ RatioRaises(current_year, "grossprofit", "revenues")
    \/ RatioRaises(previous_year, "grossprofit", "revenues")
    \/ RatioRaises(current_year, "revenues", "assets")
    \/ RatioRaises(previous_year, "revenues", "assets")

\* 1 if current_roa > 0 else 0
RoaPositive(current_roa) == IF RatGT(current_roa, RatInt(0)) THEN 1 ELSE 0

\* 1 if operating_cf > 0 else 0
CfPositive(operating_cf) == IF operating_cf > 0 THEN 1 ELSE 0

\* (variant: `>=` for `>`)
RoaNotWorse(current_roa, previous_roa) ==
    IF RatGE(current_roa, previous_roa) THEN 1 ELSE 0

\* 1 if current_roa > previous_roa else 0
RoaImprovement(current_roa, previous_roa) ==
    IF RatGT(current_roa, previous_roa) THEN 1 ELSE 0

\* 1 if operating_cf > net_income else 0
CfVsNi(operating_cf, net_income) == IF operating_cf > net_income THEN 1 ELSE 0

\* 1 if current_debt_ratio < previous_debt_ratio else 0
DebtRatioImprovement(current_debt_ratio, previous_debt_ratio) ==
    IF RatLT(current_debt_ratio, previous_debt_ratio) THEN 1 ELSE 0

\* 1 if current_ratio > previous_current_ratio else 0
CurrentRatioImprovement(current_ratio, previous_current_ratio) ==
    IF RatGT(current_ratio, previous_current_ratio) THEN 1 ELSE 0

\* (variant: `<` for `<=`)
FewerShares(current_shares, previous_shares) ==
    IF current_shares < previous_shares THEN 1 ELSE 0

\* 1 if current_shares <= previous_shares else 0
NoDilution(current_shares, previous_shares) ==
    IF current_shares <= previous_shares THEN 1 ELSE 0

\* 1 if current_gross_margin > previous_gross_margin else 0
GrossMarginImprovement(current_gross_margin, previous_gross_margin) ==
    IF RatGT(current_gross_margin, previous_gross_margin) THEN 1 ELSE 0

\* 1 if current_asset_turnover > previous_asset_turnover else 0
AssetTurnoverImprovement(current_asset_turnover, previous_asset_turnover) ==
    IF RatGT(current_asset_turnover, previous_asset_turnover) THEN 1 ELSE 0

\* (variant: the last term of the sum left out)
TotalScoreShort(roa_positive, cf_positive, roa_improvement, cf_vs_ni, debt_ratio_improvement, current_ratio_improvement, no_dilution, gross_margin_improvement, asset_turnover_improvement) ==
    roa_positive + cf_positive + roa_improvement + cf_vs_ni
    + debt_ratio_improvement + current_ratio_improvement + no_dilution
    + gross_margin_improvement

TotalScore(roa_positive, cf_positive, roa_improvement, cf_vs_ni, debt_ratio_improvement, current_ratio_improvement, no_dilution, gross_margin_improvement, asset_turnover_improvement) ==
    roa_positive + cf_positive + roa_improvement + cf_vs_ni
    + debt_ratio_improvement + current_ratio_improvement + no_dilution
    + gross_margin_improvement + asset_turnover_improvement

PiotroskiResult(current_year, previous_year) ==
    LET current_roa == Ratio(current_year, "netincomeloss", "assets")
        roa_positive == RoaPositive(current_roa)
        operating_cf ==
            Val(Get(current_year, "netcashprovidedbyusedinoperatingactivities", Num(0)))
        cf_positive == CfPositive(operating_cf)
        previous_roa == Ratio(previous_year, "netincomeloss", "assets")
        roa_improvement == RoaImprovement(current_roa, previous_roa)
        net_income == Val(Get(current_year, "netincomeloss", Num(0)))
        cf_vs_ni == CfVsNi(operating_cf, net_income)
        current_debt_ratio == Ratio(current_year, "longtermdebtnoncurrent", "assets")
        previous_debt_ratio == Ratio(previous_year, "longtermdebtnoncurrent", "assets")
        debt_ratio_improvement ==
            DebtRatioImprovement(current_debt_ratio, previous_debt_ratio)
        current_ratio == Ratio(current_year, "assetscurrent", "liabilitiescurrent")
        previous_current_ratio == Ratio(previous_year, "assetscurrent", "liabilitiescurrent")
        current_ratio_improvement ==
            CurrentRatioImprovement(current_ratio, previous_current_ratio)
        current_shares ==
            Val(Get(current_year, "weightedaveragenumberofsharesoutstandingbasic", Num(0)))
        previous_shares ==
            Val(Get(previous_year, "weightedaveragenumberofsharesoutstandingbasic", Num(0)))
        no_dilution == NoDilution(current_shares, previous_shares)
        current_gross_margin == Ratio(current_year, "grossprofit", "revenues")
        previous_gross_margin == Ratio(previous_year, "grossprofit", "revenues")
        gross_margin_improvement ==
            GrossMarginImprovement(current_gross_margin, previous_gross_margin)
        current_asset_turnover == Ratio(current_year, "revenues", "assets")
        previous_asset_turnover == Ratio(previous_year, "revenues", "assets")
        asset_turnover_improvement ==
            AssetTurnoverImprovement(current_asset_turnover, previous_asset_turnover)
    IN  [ total_score |->
              TotalScore(roa_positive, cf_positive, roa_improvement, cf_vs_ni,
                         debt_ratio_improvement, current_ratio_improvement, no_dilution,
                         gross_margin_improvement, asset_turnover_improvement),
          profitability_scores |->
            [ roa_positive |-> [score |-> roa_positive, value |-> current_roa],
              cf_positive |-> [score |-> cf_positive, value |-> operating_cf],
              roa_improvement |-> [score |-> roa_improvement, current |-> current_roa,
                                   previous |-> previous_roa],
              cf_vs_ni |-> [score |-> cf_vs_ni, cf |-> operating_cf, ni |-> net_income] ],
          leverage_scores |->
            [ debt_ratio_improvement |->
                  [score |-> debt_ratio_improvement, current |-> current_debt_ratio,
                   previous |-> previous_debt_ratio],
              current_ratio_improvement |->
                  [score |-> current_ratio_improvement, current |-> current_ratio,
                   previous |-> previous_current_ratio],
              no_dilution |-> [score |-> no_dilution, current |-> current_shares,
                               previous |-> previous_shares] ],
          efficiency_scores |->
            [ gross_margin_improvement |->
                  [score |-> gross_margin_improvement, current |-> current_gross_margin,
                   previous |-> previous_gross_margin],
              asset_turnover_improvement |->
                  [score |-> asset_turnover_improvement,
                   current |-> current_asset_turnover,
                   previous |-> previous_asset_turnover] ] ]

calculate_piotroski_fscore(financial_data) ==
    IF Len(financial_data) < 2 THEN [error |-> "insufficient periods"]
    ELSE IF PiotroskiRaises(financial_data[1], financial_data[2])
         THEN [error |-> "exception"]
         ELSE PiotroskiResult(financial_data[1], financial_data[2])

(***************************************************************************)
(* calculate_altman_zscore                                                 *)
(***************************************************************************)
\* market_cap = 0; if enterprise_data and len(enterprise_data) > 0:
\*     market_cap = enterprise_data[0].get('marketCapitalization', 0)
MarketCap(enterprise_data) ==
    IF Len(enterprise_data) > 0
    THEN Get(enterprise_data[1], "marketCapitalization", Num(0))
    ELSE Num(0)

\* the weights 1.2, 1.4, 3.3, 0.6, 1.0 and the thresholds 2.99, 1.81
WeightA == Rat(12, 10)

WeightB == Rat(14, 10)

WeightC == Rat(33, 10)

WeightD == Rat(6, 10)

WeightE == Rat(10, 10)

SafeThreshold == Rat(299, 100)

GreyThreshold == Rat(181, 100)

\* (variant: `>=` for `>`)
RiskLevelInclusive(z_score) ==
    IF RatGE(z_score, SafeThreshold) THEN "safe zone"
    ELSE IF RatGE(z_score, GreyThreshold) THEN "grey zone"
    ELSE "distress zone"

\* (variant: the lower threshold mistyped as 1.18)
RiskLevelMistyped(z_score) ==
    IF RatGT(z_score, SafeThreshold) THEN "safe zone"
    ELSE IF RatGT(z_score, Rat(118, 100)) THEN "grey zone"
    ELSE "distress zone"

\* if z_score > 2.99: ... elif z_score > 1.81: ... else: ...
RiskLevel(z_score) ==
    IF RatGT(z_score, SafeThreshold) THEN "safe zone"
    ELSE IF RatGT(z_score, GreyThreshold) THEN "grey zone"
    ELSE "distress zone"

\* (variant: a zero denominator replaced by 1)
DRatioOverOne(market_cap, total_liabilities) ==
    IF total_liabilities = Num(0) THEN Rat(Val(market_cap), 1)
    ELSE Rat(Val(market_cap), Val(total_liabilities))

\* d_ratio = market_cap / total_liabilities if total_liabilities != 0 else 0
DRatio(market_cap, total_liabilities) == SafeDiv(market_cap, total_liabilities)

\* (variant: the interest expense added as an absolute value)
EbitAbsInterest(operating_income, interest_expense) ==
    operating_income + Abs(interest_expense)

\* ebit = operating_income + interest_expense
Ebit(operating_income, interest_expense) == operating_income + interest_expense

\* x / total_assets if total_assets != 0 else 0   (a_ratio, b_ratio, c_ratio, e_ratio)
AssetRatio(x, total_assets) == SafeDiv(Num(x), total_assets)

\* index [0] of an empty list, or a None operand of -, + or of a division
\* that is carried out
AltmanRaises(financial_data, enterprise_data) ==
    \/ Len(financial_data) = 0
    \/ LET current_year == financial_data[1]
           total_assets == Get(current_year, "assets", Num(0))
       IN  \/ IsNone(Get(current_year, "assetscurrent", Num(0)))
           \/ IsNone(Get(current_year, "liabilitiescurrent", Num(0)))
           \/ total_assets # Num(0) /\ IsNone(total_assets)
           \/ SafeDivRaises(Get(current_year, "retainedearningsaccumulateddeficit", Num(0)),
                            total_assets)
           \/ IsNone(Get(current_year, "operatingincomeloss", Num(0)))
           \/ IsNone(Get(current_year, "interestexpensenonoperating", Num(0)))
           \/ SafeDivRaises(MarketCap(enterprise_data),
                            Get(current_year, "liabilities", Num(0)))
           \/ SafeDivRaises(Get(current_year, "revenues", Num(0)), total_assets)

AltmanResult(current_year, enterprise_data) ==
    LET market_cap == MarketCap(enterprise_data)
        working_capital == Val(Get(current_year, "assetscurrent", Num(0)))
                           - Val(Get(current_year, "liabilitiescurrent", Num(0)))
        total_assets == Get(current_year, "assets", Num(0))
        a_ratio == AssetRatio(working_capital, total_assets)
        a_component == RatMul(WeightA, a_ratio)
        retained_earnings == Get(current_year, "retainedearningsaccumulateddeficit", Num(0))
        b_ratio == SafeDiv(retained_earnings, total_assets)
        b_component == RatMul(WeightB, b_ratio)
        ebit == Ebit(Val(Get(current_year, "operatingincomeloss", Num(0))),
                     Val(Get(current_year, "interestexpensenonoperating", Num(0))))
        c_ratio == AssetRatio(ebit, total_assets)
        c_component == RatMul(WeightC, c_ratio)
        total_liabilities == Get(current_year, "liabilities", Num(0))
        d_ratio == DRatio(market_cap, total_liabilities)
        d_component == RatMul(WeightD, d_ratio)
        revenues == Get(current_year, "revenues", Num(0))
        e_ratio == SafeDiv(revenues, total_assets)
        e_component == RatMul(WeightE, e_ratio)
        z_score == RatAdd(RatAdd(RatAdd(RatAdd(a_component, b_component), c_component),
                                 d_component), e_component)
    IN  [ z_score |-> z_score,
          risk_level |-> RiskLevel(z_score),
          components |->
            [ a_component |-> [value |-> a_component, ratio |-> a_ratio],
              b_component |-> [value |-> b_component, ratio |-> b_ratio],
              c_component |-> [value |-> c_component, ratio |-> c_ratio],
              d_component |-> [value |-> d_component, ratio |-> d_ratio],
              e_component |-> [value |-> e_component, ratio |-> e_ratio] ],
          detailed_data |->
            [ working_capital |-> working_capital,
              total_assets |-> total_assets,
              retained_earnings |-> retained_earnings,
              ebit |-> ebit,
              market_cap |-> market_cap,
              total_liabilities |-> total_liabilities,
              revenues |-> revenues ] ]

\* (variant: the body without its try/except)
altman_without_try(financial_data, enterprise_data) ==
    IF AltmanRaises(financial_data, enterprise_data) THEN [raised |-> "Exception"]
    ELSE AltmanResult(financial_data[1], enterprise_data)

calculate_altman_zscore(financial_data, enterprise_data) ==
    IF AltmanRaises(financial_data, enterprise_data) THEN [error |-> "exception"]
    ELSE AltmanResult(financial_data[1], enterprise_data)

(***************************************************************************)
(* calculate_dupont_analysis, analyze_dupont_trends,                       *)
(* determine_primary_driver                                                *)
(***************************************************************************)
\* financial_data[:3]
AnalysisYears == 3

\* (variant: financial_data[:2])
FirstTwoYears(financial_data) == SubSeq(financial_data, 1, Min(Len(financial_data), 2))

\* (variant: every period analysed)
AllYears(financial_data) == financial_data

FirstYears(financial_data) == SubSeq(financial_data, 1, Min(Len(financial_data), AnalysisYears))

DupontYearRaises(year_data) ==
    LET net_income == Get(year_data, "netincomeloss", Num(0))
        revenues == Get(year_data, "revenues", Num(0))
        total_assets == Get(year_data, "assets", Num(0))
        stockholders_equity == Get(year_data, "stockholdersequity", Num(0))
    IN  \/ SafeDivRaises(net_income, revenues)
        \/ SafeDivRaises(revenues, total_assets)
        \/ SafeDivRaises(total_assets, stockholders_equity)
        \/ SafeDivRaises(net_income, stockholders_equity)

\* (variant: the equity multiplier left out of the product)
RoeTwoFactors(net_margin, asset_turnover, equity_multiplier) ==
    RatMul(net_margin, asset_turnover)

\* roe_calculated = net_margin * asset_turnover * equity_multiplier
RoeCalculated(net_margin, asset_turnover, equity_multiplier) ==
    RatMul(RatMul(net_margin, asset_turnover), equity_multiplier)

DupontYear(year_data) ==
    LET net_income == Get(year_data, "netincomeloss", Num(0))
        revenues == Get(year_data, "revenues", Num(0))
        total_assets == Get(year_data, "assets", Num(0))
        stockholders_equity == Get(year_data, "stockholdersequity", Num(0))
        net_margin == SafeDiv(net_income, revenues)
        asset_turnover == SafeDiv(revenues, total_assets)
        equity_multiplier == SafeDiv(total_assets, stockholders_equity)
    IN  [ date |-> Get(year_data, "date", None),
          net_margin |-> net_margin,
          asset_turnover |-> asset_turnover,
          equity_multiplier |-> equity_multiplier,
          roe_calculated |-> RoeCalculated(net_margin, asset_turnover, equity_multiplier),
          roe_direct |-> SafeDiv(net_income, stockholders_equity),
          components |-> [ net_income |-> net_income, revenues |-> revenues,
                           total_assets |-> total_assets,
                           stockholders_equity |-> stockholders_equity ] ]

\* (variant: the last of the keys with the largest value)
last_largest_driver(current, previous) ==
    LET nm == RatAbs(RatSub(current.net_margin, previous.net_margin))
        at == RatAbs(RatSub(current.asset_turnover, previous.asset_turnover))
        em == RatAbs(RatSub(current.equity_multiplier, previous.equity_multiplier))
    IN  IF RatGE(em, nm) /\ RatGE(em, at) THEN "equity_multiplier"
        ELSE IF RatGE(at, nm) THEN "asset_turnover"
        ELSE "net_margin"

\* max(changes, key=changes.get): the first key, in insertion order, whose
\* value no later key exceeds
determine_primary_driver(current, previous) ==
    LET nm == RatAbs(RatSub(current.net_margin, previous.net_margin))
        at == RatAbs(RatSub(current.asset_turnover, previous.asset_turnover))
        em == RatAbs(RatSub(current.equity_multiplier, previous.equity_multiplier))
    IN  IF RatGE(nm, at) /\ RatGE(nm, em) THEN "net_margin"
        ELSE IF RatGE(at, em) THEN "asset_turnover"
        ELSE "equity_multiplier"

\* (variant: `<= 2` for `< 2`)
trends_off_by_one(dupont_results) ==
    IF Len(dupont_results) <= 2 THEN [error |-> "insufficient periods"]
    ELSE [ net_margin_change |-> RatInt(0), asset_turnover_change |-> RatInt(0),
           equity_multiplier_change |-> RatInt(0), roe_change |-> RatInt(0),
           primary_driver |-> "net_margin" ]

analyze_dupont_trends(dupont_results) ==
    IF Len(dupont_results) < 2 THEN [error |-> "insufficient periods"]
    ELSE LET current == dupont_results[1]
             previous == dupont_results[2]
         IN  [ net_margin_change |-> RatSub(current.net_margin, previous.net_margin),
               asset_turnover_change |->
                   RatSub(current.asset_turnover, previous.asset_turnover),
               equity_multiplier_change |->
                   RatSub(current.equity_multiplier, previous.equity_multiplier),
               roe_change |-> RatSub(current.roe_direct, previous.roe_direct),
               primary_driver |-> determine_primary_driver(current, previous) ]

DupontResults(financial_data) ==
    LET years == FirstYears(financial_data)
    IN  [i \in 1..Len(years) |-> DupontYear(years[i])]

calculate_dupont_analysis(financial_data) ==
    IF \E i \in 1..Len(FirstYears(financial_data)) :
           DupontYearRaises(FirstYears(financial_data)[i])
    THEN [error |-> "exception"]
    ELSE [ yearly_analysis |-> DupontResults(financial_data),
           trend_analysis |-> analyze_dupont_trends(DupontResults(financial_data)) ]

(***************************************************************************)
(* calculate_cashflow_analysis                                             *)
(***************************************************************************)
\* the tier thresholds 1.2, 1.0, 0.8
ExcellentThreshold == Rat(12, 10)

GoodThreshold == Rat(10, 10)

FairThreshold == Rat(8, 10)

\* (variant: `>` for `>=`)
QualityAssessmentStrict(cf_quality) ==
    IF RatGT(cf_quality, ExcellentThreshold) THEN "excellent"
    ELSE IF RatGT(cf_quality, GoodThreshold) THEN "good"
    ELSE IF RatGT(cf_quality, FairThreshold) THEN "fair"
    ELSE "needs attention"

\* if cf_quality >= 1.2: ... elif cf_quality >= 1.0: ... elif cf_quality >= 0.8: ...
\* else: ...
QualityAssessment(cf_quality) ==
    IF RatGE(cf_quality, ExcellentThreshold) THEN "excellent"
    ELSE IF RatGE(cf_quality, GoodThreshold) THEN "good"
    ELSE IF RatGE(cf_quality, FairThreshold) THEN "fair"
    ELSE "needs attention"

\* (variant: the quotient of the magnitudes)
CfQualityOfMagnitudes(operating_cf, net_income) ==
    IF net_income = Num(0) THEN RatInt(0)
    ELSE Rat(Abs(operating_cf), Abs(Val(net_income)))

\* (variant: a zero divisor replaced by 1)
CfQualityOverOne(operating_cf, net_income) ==
    IF net_income = Num(0) THEN Rat(operating_cf, 1)
    ELSE Rat(operating_cf, Val(net_income))

\* cf_quality = operating_cf / net_income if net_income != 0 else 0
CfQuality(operating_cf, net_income) == SafeDiv(Num(operating_cf), net_income)

\* (variant: capital expenditure subtracted with its sign)
FreeCashFlowSigned(operating_cf, capex) == operating_cf - capex

\* free_cash_flow = operating_cf - abs(capex)
FreeCashFlow(operating_cf, capex) == operating_cf - Abs(capex)

\* (x / total_cf * 100) if total_cf != 0 else 0
Percentage(x, total_cf) == IF total_cf # 0 THEN Rat(x * 100, total_cf) ELSE RatInt(0)

CashflowRaises(financial_data) ==
    \/ Len(financial_data) = 0
    \/ LET current_year == financial_data[1]
       IN  \/ SafeDivRaises(Get(current_year, "netcashprovidedbyusedinoperatingactivities",
                                Num(0)),
                            Get(current_year, "netincomeloss", Num(0)))
           \/ IsNone(Get(current_year, "paymentstoacquireproductiveassets", Num(0)))
           \/ IsNone(Get(current_year, "netcashprovidedbyusedinoperatingactivities", Num(0)))
           \/ IsNone(Get(current_year, "netcashprovidedbyusedininvestingactivities", Num(0)))
           \/ IsNone(Get(current_year, "netcashprovidedbyusedinfinancingactivities", Num(0)))

CashflowResult(current_year) ==
    LET operating_cf ==
            Val(Get(current_year, "netcashprovidedbyusedinoperatingactivities", Num(0)))
        investing_cf ==
            Val(Get(current_year, "netcashprovidedbyusedininvestingactivities", Num(0)))
        financing_cf ==
            Val(Get(current_year, "netcashprovidedbyusedinfinancingactivities", Num(0)))
        net_income == Get(current_year, "netincomeloss", Num(0))
        capex == Val(Get(current_year, "paymentstoacquireproductiveassets", Num(0)))
        cf_quality == CfQuality(operating_cf, net_income)
        free_cash_flow == FreeCashFlow(operating_cf, capex)
        total_cf == operating_cf + investing_cf + financing_cf
    IN  [ cf_quality_ratio |-> cf_quality,
          free_cash_flow |-> free_cash_flow,
          quality_assessment |-> QualityAssessment(cf_quality),
          structure_analysis |->
            [ operating_percentage |-> Percentage(operating_cf, total_cf),
              investing_percentage |-> Percentage(investing_cf, total_cf),
              financing_percentage |-> Percentage(financing_cf, total_cf) ],
          detailed_flows |->
            [ operating_cf |-> operating_cf, investing_cf |-> investing_cf,
              financing_cf |-> financing_cf, net_income |-> net_income,
              capex |-> capex, total_cf |-> total_cf ] ]

calculate_cashflow_analysis(financial_data) ==
    IF CashflowRaises(financial_data) THEN [error |-> "exception"]
    ELSE CashflowResult(financial_data[1])

(***************************************************************************)
(* prepare_comprehensive_analysis_data, statement by statement             *)
(***************************************************************************)
Unset == [unset |-> TRUE]

Init ==
    /\ pc = "idle"
    /\ income = <<>>
    /\ balance = <<>>
    /\ cashflow = <<>>
    /\ enterprise = <<>>
    /\ fin = <<>>
    /\ quality = Unset
    /\ validation = Unset
    /\ piotroski = Unset
    /\ zscore = Unset
    /\ dupont = Unset
    /\ cashres = Unset
    /\ bundle = Unset

\* get_fmp_data_from_three_apis: the provider's answers are stored and the
\* three statements merged; the analysis flow then starts at `start`, unless
\* the merge raised, which ends the request without any data
Fetched(income_data, balance_data, cash_flow_data, enterprise_data, start) ==
    /\ income' = AfterRead(income_data)
    /\ balance' = AfterRead(balance_data)
    /\ cashflow' = AfterRead(cash_flow_data)
    /\ enterprise' = enterprise_data
    /\ fin' = IF MergeRaises(income_data, balance_data, cash_flow_data) THEN <<>>
              ELSE merge_financial_statements(income_data, balance_data, cash_flow_data)
    /\ pc' = IF MergeRaises(income_data, balance_data, cash_flow_data) THEN "raised"
             ELSE start
    /\ UNCHANGED <<quality, validation, piotroski, zscore, dupont, cashres, bundle>>

\* merge_financial_statements called once more on the stored answers
Remerge ==
    /\ pc = "remerge"
    /\ income' = AfterRead(income)
    /\ balance' = AfterRead(balance)
    /\ cashflow' = AfterRead(cashflow)
    /\ fin' = merge_financial_statements(income, balance, cashflow)
    /\ pc' = "quality"
    /\ UNCHANGED <<enterprise, quality, validation, piotroski, zscore, dupont,
                   cashres, bundle>>

\* a call that raised
Raised(result) == "raised" \in DOMAIN result

\* The flow after a call inside the try block of
\* prepare_comprehensive_analysis_data: an exception that escapes the call
\* is raised again to the caller and no bundle is returned
After(result, next) ==
    IF Raised(result)
    THEN pc' = "raised" /\ bundle' = [raised |-> "Exception"]
    ELSE pc' = next /\ bundle' = bundle

\* data_quality = analyze_data_quality(fmp_data)
Quality ==
    /\ pc = "quality"
    /\ quality' = analyze_data_quality(fin, enterprise)
    /\ After(analyze_data_quality(fin, enterprise), "validate")
    /\ UNCHANGED <<income, balance, cashflow, enterprise, fin, validation,
                   piotroski, zscore, dupont, cashres>>

\* validation_result = validate_financial_data(...)
Validate ==
    /\ pc = "validate"
    /\ validation' = validate_financial_data(fin)
    /\ After(validate_financial_data(fin), "piotroski")
    /\ UNCHANGED <<income, balance, cashflow, enterprise, fin, quality,
                   piotroski, zscore, dupont, cashres>>

\* piotroski_results = calculate_piotroski_fscore(...)
Piotroski ==
    /\ pc = "piotroski"
    /\ piotroski' = calculate_piotroski_fscore(fin)
    /\ After(calculate_piotroski_fscore(fin), "altman")
    /\ UNCHANGED <<income, balance, cashflow, enterprise, fin, quality, validation,
                   zscore, dupont, cashres>>

\* zscore_results = calculate_altman_zscore(...)
Altman ==
    /\ pc = "altman"
    /\ zscore' = calculate_altman_zscore(fin, enterprise)
    /\ After(calculate_altman_zscore(fin, enterprise), "dupont")
    /\ UNCHANGED <<income, balance, cashflow, enterprise, fin, quality, validation,
                   piotroski, dupont, cashres>>

\* dupont_results = calculate_dupont_analysis(...)
Dupont ==
    /\ pc = "dupont"
    /\ dupont' = calculate_dupont_analysis(fin)
    /\ After(calculate_dupont_analysis(fin), "cashflow")
    /\ UNCHANGED <<income, balance, cashflow, enterprise, fin, quality, validation,
                   piotroski, zscore, cashres>>

\* cashflow_results = calculate_cashflow_analysis(...)
Cashflow ==
    /\ pc = "cashflow"
    /\ cashres' = calculate_cashflow_analysis(fin)
    /\ After(calculate_cashflow_analysis(fin), "assemble")
    /\ UNCHANGED <<income, balance, cashflow, enterprise, fin, quality, validation,
                   piotroski, zscore, dupont>>

\* analysis_limitations
AnalysisLimitations(validation_result, data_quality) ==
    (IF validation_result.verdict = "warnings" THEN <<"validation warnings">> ELSE <<>>)
    \o (IF data_quality.year_count < 3 THEN <<"few periods">> ELSE <<>>)
    \o (IF data_quality.missing_fields # <<>> THEN <<"missing fields">> ELSE <<>>)

\* comprehensive_data, returned as its json.dumps
Assemble ==
    /\ pc = "assemble"
    /\ bundle' = [ quality_report |->
                     [ validation_result |-> validation,
                       data_quality |-> quality,
                       limitations |-> AnalysisLimitations(validation, quality) ],
                   results |->
                     [ piotroski_fscore |-> piotroski,
                       altman_zscore |-> zscore,
                       dupont_analysis |-> dupont,
                       cashflow_analysis |-> cashres ],
                   financial_statements |-> fin,
                   enterprise_values |-> enterprise ]
    /\ pc' = "done"
    /\ UNCHANGED <<income, balance, cashflow, enterprise, fin, quality, validation,
                   piotroski, zscore, dupont, cashres>>

(***************************************************************************)
(* Provider answers.  The provider's records are inputs: the sets below    *)
(* are the bounded families of answers the checks range over.              *)
(***************************************************************************)
\* most periods in an answer of the full flow
MaxPeriods == 2

\* most records in one collection, and the latest date, of the merge inputs
MaxRecs == 2

MaxDate == 2

\* income-statement records of period d: every field numeric; revenue
\* null; net income null; only the date
IncomeFull(d) ==
    [date |-> d, symbol |-> "TSM", period |-> "FY", revenue |-> Num(10 + d),
     grossProfit |-> Num(4 + d), operatingIncome |-> Num(3), netIncome |-> Num(2 * d),
     interestExpense |-> Num(1), incomeBeforeTax |-> Num(3),
     weightedAverageShsOut |-> Num(5)]

Bare(d) == [date |-> d]

IncomeVariants(d) ==
    { IncomeFull(d),
      [date |-> d, symbol |-> "TSM", revenue |-> None, netIncome |-> Num(1)],
      [date |-> d, symbol |-> "TSM", revenue |-> Num(10), netIncome |-> None],
      Bare(d) }

\* balance-sheet records of period d: every field numeric; total assets
\* null; only the date
BalanceFull(d) ==
    [date |-> d, totalAssets |-> Num(20), totalLiabilities |-> Num(8),
     totalStockholdersEquity |-> Num(12), totalCurrentAssets |-> Num(6 + d),
     totalCurrentLiabilities |-> Num(4), retainedEarnings |-> Num(5),
     longTermDebt |-> Num(6 - d)]

BalanceVariants(d) ==
    { BalanceFull(d),
      [date |-> d, totalAssets |-> None, totalLiabilities |-> Num(8),
       totalStockholdersEquity |-> Num(12)],
      Bare(d) }

\* cash-flow records of period d: the primary keys numeric; the primary
\* operating key null beside a numeric alternate key
CashFull(d) ==
    [date |-> d, netCashProvidedByOperatingActivities |-> Num(3 * d),
     netCashProvidedByInvestingActivities |-> Num(-2),
     netCashProvidedByFinancingActivities |-> Num(-1), capitalExpenditure |-> Num(-1)]

CashVariants(d) ==
    { CashFull(d),
      [date |-> d, netCashProvidedByOperatingActivities |-> None,
       operatingCashFlow |-> Num(3), capitalExpenditure |-> Num(1)] }

EnterpriseAnswers ==
    { <<>>,
      <<[marketCapitalization |-> Num(40)]>>,
      <<[marketCapitalization |-> Num(0)]>>,
      <<[symbol |-> "TSM"]>> }

\* the periods n, n-1, ..., 1, most recent first
PeriodDates(n) == [i \in 1..n |-> n + 1 - i]

\* the answers of n periods drawn from recs: record i is of period
\* PeriodDates(n)[i]
Statements(recs, n) ==
    {s \in [1..n -> recs] : \A i \in 1..n : s[i].date = PeriodDates(n)[i]}

\* the provider answers n periods in each statement, or no income statement
FetchStatements ==
    /\ pc = "idle"
    /\ \E n \in 0..MaxPeriods :
       \E inc \in Statements(UNION {IncomeVariants(d) : d \in 1..n}, n) :
       \E bal \in Statements(UNION {BalanceVariants(d) : d \in 1..n}, n) :
       \E cf \in Statements(UNION {CashVariants(d) : d \in 1..n}, n) :
       \E ent \in EnterpriseAnswers :
       \E income_empty \in BOOLEAN :
           Fetched(IF income_empty THEN <<>> ELSE inc, bal, cf, ent, "quality")

Next == FetchStatements \/ Quality \/ Validate \/ Piotroski \/ Altman \/ Dupont
        \/ Cashflow \/ Assemble

Spec == Init /\ [][Next]_vars

\* The merge alone, on collections of any length up to MaxRecs whose records
\* carry any of the dates 1..MaxDate in any order, repeated or not
Collections(recs) == UNION {[1..n -> recs] : n \in 0..MaxRecs}

IncomeCollections ==
    Collections(UNION {{IncomeFull(d), Bare(d)} : d \in 1..MaxDate})

BalanceCollections == Collections({BalanceFull(d) : d \in 1..MaxDate})

CashCollections == Collections({CashFull(d) : d \in 1..MaxDate})

FetchAny ==
    /\ pc = "idle"
    /\ \E inc \in IncomeCollections :
       \E bal \in BalanceCollections :
       \E cf \in CashCollections :
           Fetched(inc, bal, cf, <<>>, "quality")

NextMerge == FetchAny

SpecMerge == Init /\ [][NextMerge]_vars

(***************************************************************************)
(* The scorecard alone (the dashboard's call of calculate_piotroski_fscore)*)
(* on two or three numeric periods.                                        *)
(***************************************************************************)
\* largest magnitude of net income and of total assets in these answers
MaxVal == 2

ScoreIncome(d, revenue, grossProfit, netIncome, shares) ==
    [date |-> d, revenue |-> Num(revenue), grossProfit |-> Num(grossProfit),
     netIncome |-> Num(netIncome), weightedAverageShsOut |-> Num(shares)]

ScoreBalance(d, totalAssets, currentAssets, longTermDebt) ==
    [date |-> d, totalAssets |-> Num(totalAssets), totalCurrentAssets |-> Num(currentAssets),
     totalCurrentLiabilities |-> Num(2), longTermDebt |-> Num(longTermDebt)]

ScoreCash(d, operatingCashFlow) ==
    [date |-> d, netCashProvidedByOperatingActivities |-> Num(operatingCashFlow)]

\* the prior period (date 2) has revenue 2, gross profit 1, 2 shares,
\* current assets 2 and long-term debt 1; an older period (date 1) may follow
FetchScore ==
    /\ pc = "idle"
    /\ \E ni_t \in -MaxVal..MaxVal, ni_p \in -MaxVal..MaxVal :
       \E a_t \in 0..MaxVal, a_p \in 0..MaxVal :
       \E cf_t \in {-1, 3}, debt_t \in {0, 1}, ca_t \in {2, 3} :
       \E shares_t \in {1, 2, 3}, gp_t \in {1, 2}, rev_t \in {2, 3} :
       \E older \in {<<>>, <<1>>} :
           Fetched(<<ScoreIncome(3, rev_t, gp_t, ni_t, shares_t),
                     ScoreIncome(2, 2, 1, ni_p, 2)>>
                       \o [i \in 1..Len(older) |-> IncomeFull(older[i])],
                   <<ScoreBalance(3, a_t, ca_t, debt_t), ScoreBalance(2, a_p, 2, 1)>>
                       \o [i \in 1..Len(older) |-> BalanceFull(older[i])],
                   <<ScoreCash(3, cf_t), ScoreCash(2, 1)>>
                       \o [i \in 1..Len(older) |-> CashFull(older[i])],
                   <<>>, "piotroski")

NextScore == FetchScore \/ Piotroski

SpecScore == Init /\ [][NextScore]_vars

(***************************************************************************)
(* The risk index alone (the dashboard's call of calculate_altman_zscore)  *)
(* on one numeric period, with figures that put the index on, just below   *)
(* and just above its two thresholds.                                      *)
(***************************************************************************)
FetchZ ==
    /\ pc = "idle"
    /\ \E ta \in {0, 100}, tl \in {0, 50}, rev \in {0, 180, 181, 182, 298, 299, 300} :
       \E ca \in {0, 10}, cl \in {0, 5}, re \in {0, 5} :
       \E oi \in {0, 10}, ie \in {-1, 0, 1} :
       \E ent \in {<<>>, <<[marketCapitalization |-> Num(40)]>>,
                   <<[marketCapitalization |-> Num(0)]>>, <<[symbol |-> "TSM"]>>} :
           Fetched(<<[date |-> 1, revenue |-> Num(rev), operatingIncome |-> Num(oi),
                      interestExpense |-> Num(ie)]>>,
                   <<[date |-> 1, totalAssets |-> Num(ta), totalLiabilities |-> Num(tl),
                      totalCurrentAssets |-> Num(ca), totalCurrentLiabilities |-> Num(cl),
                      retainedEarnings |-> Num(re)]>>,
                   <<Bare(1)>>, ent, "altman")

NextZ == FetchZ \/ Altman

SpecZ == Init /\ [][NextZ]_vars

(***************************************************************************)
(* The return decomposition alone (the dashboard's call of                 *)
(* calculate_dupont_analysis) on 0..MaxYears numeric periods.              *)
(***************************************************************************)
MaxYears == 4

\* the figures of one period: net income, revenue, <<assets, equity>>
YearProfiles == ({-1, 2} \X {0, 4} \X {<<8, 4>>, <<0, 0>>}) \cup {<<2, 4, <<0, 4>>>>}

FetchDupont ==
    /\ pc = "idle"
    /\ \E n \in 0..MaxYears :
       \E years \in [1..n -> YearProfiles] :
           Fetched([i \in 1..n |-> [date |-> PeriodDates(n)[i],
                                    netIncome |-> Num(years[i][1]),
                                    revenue |-> Num(years[i][2])]],
                   [i \in 1..n |-> [date |-> PeriodDates(n)[i],
                                    totalAssets |-> Num(years[i][3][1]),
                                    totalStockholdersEquity |-> Num(years[i][3][2])]],
                   [i \in 1..n |-> Bare(PeriodDates(n)[i])],
                   <<>>, "dupont")

NextDupont == FetchDupont \/ Dupont

SpecDupont == Init /\ [][NextDupont]_vars

(***************************************************************************)
(* The full flow with the merge run twice on the same answers.             *)
(***************************************************************************)
FetchTwice ==
    /\ pc = "idle"
    /\ \E n \in 0..MaxPeriods :
       \E inc \in Statements(UNION {IncomeVariants(d) : d \in 1..n}, n) :
       \E bal \in Statements(UNION {BalanceVariants(d) : d \in 1..n}, n) :
       \E cf \in Statements(UNION {CashVariants(d) : d \in 1..n}, n) :
       \E ent \in EnterpriseAnswers :
           Fetched(inc, bal, cf, ent, "remerge")

NextRerun == FetchTwice \/ Remerge \/ Quality \/ Validate \/ Piotroski \/ Altman
             \/ Dupont \/ Cashflow \/ Assemble

SpecRerun == Init /\ [][NextRerun]_vars

(***************************************************************************)
(* The merge alone on collections that may hold an item without a date.    *)
(***************************************************************************)
Undated == [symbol |-> "TSM"]

LooseIncomeCollections ==
    Collections({Undated} \cup UNION {{IncomeFull(d), Bare(d)} : d \in 1..MaxDate})

FetchLoose ==
    /\ pc = "idle"
    /\ \E inc \in LooseIncomeCollections :
       \E bal \in BalanceCollections :
       \E cf \in CashCollections :
           Fetched(inc, bal, cf, <<>>, "quality")

NextLoose == FetchLoose

SpecLoose == Init /\ [][NextLoose]_vars

(***************************************************************************)
(* The cash-flow model alone (the dashboard's call of                      *)
(* calculate_cashflow_analysis) on one numeric period.                     *)
(***************************************************************************)
\* largest magnitude of a flow, of net income and of capital expenditure
MaxFlow == 2

FetchCash ==
    /\ pc = "idle"
    /\ \E operating \in -MaxFlow..MaxFlow :
       \E investing \in -MaxFlow..MaxFlow :
       \E financing \in -MaxFlow..MaxFlow :
       \E net_income \in -MaxFlow..MaxFlow :
       \E capex \in -MaxFlow..MaxFlow :
           Fetched(<<[date |-> 1, netIncome |-> Num(net_income)]>>,
                   <<Bare(1)>>,
                   <<[date |-> 1,
                      netCashProvidedByOperatingActivities |-> Num(operating),
                      netCashProvidedByInvestingActivities |-> Num(investing),
                      netCashProvidedByFinancingActivities |-> Num(financing),
                      capitalExpenditure |-> Num(capex)]>>,
                   <<>>, "cashflow")

NextCash == FetchCash \/ Cashflow

SpecCash == Init /\ [][NextCash]_vars

(***************************************************************************)
(* The reporter and the validator alone (the dashboard's calls of          *)
(* analyze_data_quality and validate_financial_data) on one period or on   *)
(* TrendPeriods periods, whose revenue and total assets are omitted, null, *)
(* negative, zero or positive.                                             *)
(***************************************************************************)
\* `len(financial_data) < 2`: the number of periods the reporter asks for
TrendPeriods == 2

\* largest magnitude of revenue and of total assets in these answers
MaxAmount == 1

Amounts == {None} \cup {Num(v) : v \in -MaxAmount..MaxAmount}

CheckedIncome(d) ==
    {[date |-> d, revenue |-> r, netIncome |-> n] : r \in Amounts, n \in {None, Num(2)}}
    \cup {[date |-> d, netIncome |-> n] : n \in {None, Num(2)}}

CheckedBalance(d) ==
    {[date |-> d, totalAssets |-> a, totalStockholdersEquity |-> e] :
         a \in Amounts, e \in {None, Num(3)}}
    \cup {[date |-> d, totalStockholdersEquity |-> e] : e \in {None, Num(3)}}

FetchChecked ==
    /\ pc = "idle"
    /\ \E n \in {1, TrendPeriods} :
       \E inc \in Statements(UNION {CheckedIncome(d) : d \in 1..n}, n) :
       \E bal \in Statements(UNION {CheckedBalance(d) : d \in 1..n}, n) :
       \E ent \in {<<>>, <<[marketCapitalization |-> Num(40)]>>} :
           Fetched(inc, bal, [i \in 1..n |-> Bare(PeriodDates(n)[i])], ent, "quality")

NextChecks == FetchChecked \/ Quality \/ Validate

SpecChecks == Init /\ [][NextChecks]_vars

(***************************************************************************)
(* The merge alone on one period whose cash-flow record holds or omits     *)
(* each primary key, each alternate key and the capital expenditure.       *)
(***************************************************************************)
\* a key of a source record: omitted (<<>>), or present with a value (<<v>>)
Key(key, entry) == IF entry = <<>> THEN [k \in {} |-> None] ELSE key :> entry[1]

Omitted == <<>>

Holding(values) == {<<v>> : v \in values}

CashKeys(operating, operating_alt, investing, investing_alt, financing, financing_alt, capex) ==
    [date |-> 1]
    @@ Key("netCashProvidedByOperatingActivities", operating)
    @@ Key("operatingCashFlow", operating_alt)
    @@ Key("netCashProvidedByInvestingActivities", investing)
    @@ Key("netCashUsedForInvestingActivites", investing_alt)
    @@ Key("netCashProvidedByFinancingActivities", financing)
    @@ Key("netCashUsedProvidedByFinancingActivities", financing_alt)
    @@ Key("capitalExpenditure", capex)

FetchFields ==
    /\ pc = "idle"
    /\ \E inc \in IncomeVariants(1), bal \in BalanceVariants(1) :
       \E operating \in {Omitted} \cup Holding({None, Num(3)}) :
       \E operating_alt \in {Omitted} \cup Holding({Num(4)}) :
       \E investing \in {Omitted} \cup Holding({Num(-2)}) :
       \E investing_alt \in {Omitted} \cup Holding({Num(-5)}) :
       \E financing \in {Omitted} \cup Holding({None, Num(-1)}) :
       \E financing_alt \in {Omitted} \cup Holding({Num(-6)}) :
       \E capex \in {Omitted} \cup Holding({Num(-1)}) :
           Fetched(<<inc>>, <<bal>>,
                   <<CashKeys(operating, operating_alt, investing, investing_alt,
                              financing, financing_alt, capex)>>,
                   <<>>, "quality")

NextFields == FetchFields

SpecFields == Init /\ [][NextFields]_vars

(***************************************************************************)
(* The four models (the dashboard's calls of them) on 1..MaxYears periods  *)
(* that count back from one newest date, so that a shorter answer is a     *)
(* prefix of a longer one.  A period is drawn from three profiles: the     *)
(* full records, records with other figures, records with a null net       *)
(* income.                                                                 *)
(***************************************************************************)
Profiles == {1, 2, 3}

ProfileIncome(d, p) ==
    IF p = 1 THEN IncomeFull(d)
    ELSE [date |-> d, revenue |-> Num(7), grossProfit |-> Num(2),
          operatingIncome |-> Num(1), netIncome |-> IF p = 2 THEN Num(-1) ELSE None,
          interestExpense |-> Num(2), weightedAverageShsOut |-> Num(6)]

ProfileBalance(d, p) ==
    IF p = 1 THEN BalanceFull(d)
    ELSE [date |-> d, totalAssets |-> Num(9), totalLiabilities |-> Num(5),
          totalStockholdersEquity |-> Num(4), totalCurrentAssets |-> Num(3),
          totalCurrentLiabilities |-> Num(2), retainedEarnings |-> Num(1),
          longTermDebt |-> Num(2)]

ProfileCash(d, p) ==
    IF p = 1 THEN CashFull(d)
    ELSE [date |-> d, operatingCashFlow |-> Num(-2),
          netCashUsedForInvestingActivites |-> Num(1), capitalExpenditure |-> Num(2)]

\* the periods MaxYears, MaxYears - 1, ..., most recent first
DatesBack(n) == [i \in 1..n |-> MaxYears + 1 - i]

FetchNewest ==
    /\ pc = "idle"
    /\ \E n \in 1..MaxYears :
       \E profile \in [1..n -> Profiles] :
       \E ent \in {<<>>, <<[marketCapitalization |-> Num(40)]>>} :
           Fetched([i \in 1..n |-> ProfileIncome(DatesBack(n)[i], profile[i])],
                   [i \in 1..n |-> ProfileBalance(DatesBack(n)[i], profile[i])],
                   [i \in 1..n |-> ProfileCash(DatesBack(n)[i], profile[i])],
                   ent, "piotroski")

NextNewest == FetchNewest \/ Piotroski \/ Altman \/ Dupont \/ Cashflow

SpecNewest == Init /\ [][NextNewest]_vars

(***************************************************************************)
(* The return decomposition alone on TrendPeriods periods whose figures    *)
(* make the three factors change by equal and by unequal amounts.          *)
(***************************************************************************)
FetchTrend ==
    /\ pc = "idle"
    /\ \E ni \in [1..TrendPeriods -> {-1, 2, 5}] :
       \E rev \in [1..TrendPeriods -> {0, 4, 10}] :
       \E ta \in [1..TrendPeriods -> {0, 8, 10}] :
       \E eq \in [1..TrendPeriods -> {0, 4}] :
           Fetched([i \in 1..TrendPeriods |->
                        [date |-> PeriodDates(TrendPeriods)[i], netIncome |-> Num(ni[i]),
                         revenue |-> Num(rev[i])]],
                   [i \in 1..TrendPeriods |->
                        [date |-> PeriodDates(TrendPeriods)[i], totalAssets |-> Num(ta[i]),
                         totalStockholdersEquity |-> Num(eq[i])]],
                   [i \in 1..TrendPeriods |-> Bare(PeriodDates(TrendPeriods)[i])],
                   <<>>, "dupont")

NextTrend == FetchTrend \/ Dupont

SpecTrend == Init /\ [][NextTrend]_vars

(***************************************************************************)
(* The cash-flow model alone on one period whose operating cash flow and   *)
(* net income put the quality ratio on, just below and just above its      *)
(* three thresholds, with either sign.                                     *)
(***************************************************************************)
\* largest magnitude of the operating cash flow in these answers
MaxOperating == 13

FetchTier ==
    /\ pc = "idle"
    /\ \E operating \in -MaxOperating..MaxOperating :
       \E net_income \in {-10, -5, 0, 5, 10} :
           Fetched(<<[date |-> 1, netIncome |-> Num(net_income)]>>,
                   <<Bare(1)>>,
                   <<[date |-> 1, netCashProvidedByOperatingActivities |-> Num(operating),
                      capitalExpenditure |-> Num(-1)]>>,
                   <<>>, "cashflow")

NextTier == FetchTier \/ Cashflow

SpecTier == Init /\ [][NextTier]_vars

(***************************************************************************)
(* Properties                                                              *)
(***************************************************************************)
InAllThree(d) ==
    /\ \E i \in 1..Len(income) : income[i].date = d
    /\ \E i \in 1..Len(balance) : balance[i].date = d
    /\ \E i \in 1..Len(cashflow) : cashflow[i].date = d

\* C1: the merge returns exactly one record for every date that occurs in
\* all three collections, no record for any other date, and the records in
\* strictly descending date order.
C1_MergeCommonDatesDescending ==
    pc # "idle" =>
        /\ \A d \in 1..MaxDate :
               Cardinality({i \in 1..Len(fin) : fin[i].date = d})
                   = IF InAllThree(d) THEN 1 ELSE 0
        /\ \A i \in 1..Len(fin) : fin[i].date \in 1..MaxDate
        /\ \A i, j \in 1..Len(fin) : i < j => fin[i].date > fin[j].date

\* two periods merged from an income collection that lists them oldest first
C1_Witness ==
    /\ pc # "idle"
    /\ Len(fin) = 2
    /\ Len(income) = 2
    /\ income[1].date < income[2].date

\* a model's result is a normal result (it has the key `normal`) or an error
\* result (it has the key "error"), never both, and never a raised exception
ModelOutcome(result, normal) ==
    /\ ~Raised(result)
    /\ ("error" \in DOMAIN result) # (normal \in DOMAIN result)

\* C2: every scoring model returns a normal result or a result with a
\* top-level error, no exception leaves a model, the models after a failed
\* one still run, and only the validator can keep the bundle from being
\* assembled.
C2_ModelsNeverRaise ==
    /\ piotroski # Unset => ModelOutcome(piotroski, "total_score")
    /\ zscore # Unset => ModelOutcome(zscore, "z_score")
    /\ dupont # Unset => ModelOutcome(dupont, "yearly_analysis")
    /\ cashres # Unset => ModelOutcome(cashres, "cf_quality_ratio")
    /\ pc = "raised" => Raised(validation) /\ piotroski = Unset
    /\ pc \in {"altman", "dupont", "cashflow", "assemble", "done"} => piotroski # Unset
    /\ pc \in {"dupont", "cashflow", "assemble", "done"} => zscore # Unset
    /\ pc \in {"cashflow", "assemble", "done"} => dupont # Unset
    /\ pc \in {"assemble", "done"} => cashres # Unset
    /\ pc = "done" =>
           bundle.results = [ piotroski_fscore |-> piotroski, altman_zscore |-> zscore,
                              dupont_analysis |-> dupont, cashflow_analysis |-> cashres ]

\* the scorecard failed on a null value, the risk index after it succeeded,
\* and the bundle was assembled
C2_Witness ==
    /\ pc = "done"
    /\ piotroski = [error |-> "exception"]
    /\ "z_score" \in DOMAIN zscore
    /\ "error" \in DOMAIN bundle.results.cashflow_analysis

\* C3 as stated: with an empty income statement the merge is empty, the
\* validator says "no data", each of the four models returns an error
\* result, and the bundle is returned.
C3_AllFourModelsError ==
    (pc # "idle" /\ income = <<>>) =>
        /\ fin = <<>>
        /\ pc # "raised"
        /\ validation # Unset => validation = [verdict |-> "no data"]
        /\ piotroski # Unset => "error" \in DOMAIN piotroski
        /\ zscore # Unset => "error" \in DOMAIN zscore
        /\ dupont # Unset => "error" \in DOMAIN dupont
        /\ cashres # Unset => "error" \in DOMAIN cashres

\* C3 as amended: with an empty income statement the merge is empty, the
\* validator says "no data", the scorecard, the risk index and the cash-flow
\* model return error results, the return decomposition returns an empty
\* list of periods with an error for its trend, and the bundle is returned.
C3_EmptyIncomeFlow ==
    (pc # "idle" /\ income = <<>>) =>
        /\ fin = <<>>
        /\ pc # "raised"
        /\ validation # Unset => validation = [verdict |-> "no data"]
        /\ piotroski # Unset => "error" \in DOMAIN piotroski
        /\ zscore # Unset => "error" \in DOMAIN zscore
        /\ dupont # Unset =>
               dupont = [ yearly_analysis |-> <<>>,
                          trend_analysis |-> [error |-> "insufficient periods"] ]
        /\ cashres # Unset => "error" \in DOMAIN cashres
        /\ pc = "done" => ~Raised(bundle) /\ bundle.financial_statements = <<>>

\* the bundle of an answer with balance-sheet and cash-flow periods but no
\* income statement
C3_Witness ==
    /\ pc = "done"
    /\ income = <<>>
    /\ Len(balance) > 0
    /\ Len(cashflow) > 0

InsufficientPeriods == [error |-> "insufficient periods"]

\* C4: with fewer than 2 periods the scorecard returns the
\* insufficient-periods error and no score, and the trend sub-analysis of
\* the return decomposition returns an error; with 2 or more periods
\* neither returns that error.
C4_InsufficientPeriods ==
    /\ piotroski # Unset => (Len(fin) < 2 <=> piotroski = InsufficientPeriods)
    /\ (dupont # Unset /\ "error" \notin DOMAIN dupont) =>
           (Len(fin) < 2 <=> dupont.trend_analysis = InsufficientPeriods)
    /\ dupont # InsufficientPeriods

\* one period: no score, and a return decomposition whose trend is an error
C4_Witness ==
    /\ Len(fin) = 1
    /\ piotroski = InsufficientPeriods
    /\ dupont # Unset
    /\ "yearly_analysis" \in DOMAIN dupont
    /\ Len(dupont.yearly_analysis) = 1
    /\ dupont.trend_analysis = InsufficientPeriods

Normal(result) == result # Unset /\ "error" \notin DOMAIN result

SubScores(r) ==
    << r.profitability_scores.roa_positive.score,
       r.profitability_scores.cf_positive.score,
       r.profitability_scores.roa_improvement.score,
       r.profitability_scores.cf_vs_ni.score,
       r.leverage_scores.debt_ratio_improvement.score,
       r.leverage_scores.current_ratio_improvement.score,
       r.leverage_scores.no_dilution.score,
       r.efficiency_scores.gross_margin_improvement.score,
       r.efficiency_scores.asset_turnover_improvement.score >>

RECURSIVE SumSeq(_)
SumSeq(q) == IF q = <<>> THEN 0 ELSE Head(q) + SumSeq(Tail(q))

\* C5: in a normal scorecard result of at least 2 periods each of the nine
\* sub-test scores is 0 or 1 and total_score is their sum, an integer in 0..9.
C5_TotalIsSumOfNine ==
    Normal(piotroski) =>
        /\ Len(fin) >= 2
        /\ \A k \in 1..9 : SubScores(piotroski)[k] \in {0, 1}
        /\ piotroski.total_score = SumSeq(SubScores(piotroski))
        /\ piotroski.total_score \in 0..9

\* every one of the nine tests scores
C5_Witness == Normal(piotroski) /\ piotroski.total_score = 9

\* C6: with total assets > 0 in the two newest periods, the
\* return-on-assets-improvement score is 1 exactly when netIncome/assets of
\* the newest period is strictly greater than that of the prior period
\* (compared here by cross-multiplication of the merged figures).
C6_RoaImprovementIff ==
    (Normal(piotroski) /\ Val(fin[1].assets) > 0 /\ Val(fin[2].assets) > 0) =>
        (piotroski.profitability_scores.roa_improvement.score = 1
            <=> Val(fin[1].netincomeloss) * Val(fin[2].assets)
                    > Val(fin[2].netincomeloss) * Val(fin[1].assets))

\* three periods, a loss in both newest ones on different asset bases, and
\* the test scores
C6_Witness ==
    /\ Normal(piotroski)
    /\ Len(fin) = 3
    /\ Val(fin[2].assets) > 0
    /\ Val(fin[1].assets) > Val(fin[2].assets)
    /\ Val(fin[1].netincomeloss) < 0
    /\ Val(fin[2].netincomeloss) < Val(fin[1].netincomeloss)
    /\ piotroski.profitability_scores.roa_improvement.score = 1

\* C7 as stated: an index of exactly 2.99 is classified grey zone and an
\* index of exactly 1.81 is classified grey zone.
C7_BothBoundariesGrey ==
    Normal(zscore) =>
        /\ zscore.z_score = <<299, 100>> => zscore.risk_level = "grey zone"
        /\ zscore.z_score = <<181, 100>> => zscore.risk_level = "grey zone"

\* C7 as amended: an index of exactly 2.99 is classified grey zone (not
\* safe zone) and an index of exactly 1.81 is classified distress zone.
C7_BoundariesExact ==
    Normal(zscore) =>
        /\ zscore.z_score = <<299, 100>> => zscore.risk_level = "grey zone"
        /\ zscore.z_score = <<181, 100>> => zscore.risk_level = "distress zone"

\* an index of exactly 2.99
C7_Witness == Normal(zscore) /\ zscore.z_score = <<299, 100>>

\* C8: the classification of an index z is safe zone if z > 2.99, grey zone
\* if 1.81 < z <= 2.99 and distress zone otherwise (z = num/den, den > 0,
\* compared in hundredths).
C8_Classification ==
    Normal(zscore) =>
        LET num == zscore.z_score[1]
            den == zscore.z_score[2]
        IN  /\ den > 0
            /\ zscore.risk_level \in {"safe zone", "grey zone", "distress zone"}
            /\ zscore.risk_level = "safe zone" <=> 100 * num > 299 * den
            /\ zscore.risk_level = "grey zone"
                   <=> (100 * num > 181 * den /\ 100 * num <= 299 * den)
            /\ zscore.risk_level = "distress zone" <=> 100 * num <= 181 * den

\* an index strictly inside the grey zone to which market value contributes
C8_Witness ==
    /\ Normal(zscore)
    /\ zscore.risk_level = "grey zone"
    /\ zscore.z_score \notin {<<299, 100>>, <<181, 100>>}
    /\ zscore.components.d_component.value # RatInt(0)

\* the figures the risk index reads
ZAssets == Val(fin[1].assets)

ZLiabilities == Val(fin[1].liabilities)

ZMarketCap ==
    IF Len(enterprise) > 0 /\ "marketCapitalization" \in DOMAIN enterprise[1]
    THEN Val(enterprise[1].marketCapitalization)
    ELSE 0

\* weight (in tenths) times an integer
Tenths(weight, x) == Rat(weight * x, 10)

\* C9 as stated: a zero denominator is replaced by 1, so with total
\* liabilities 0 component D is 0.6 x market capitalization and with total
\* assets 0 components A, B, C and E are their weight times the numerator.
C9_DenominatorOne ==
    Normal(zscore) =>
        /\ ZLiabilities = 0 =>
               zscore.components.d_component.value = Tenths(6, ZMarketCap)
        /\ ZAssets = 0 =>
               /\ zscore.components.a_component.value
                      = Tenths(12, Val(fin[1].assetscurrent) - Val(fin[1].liabilitiescurrent))
               /\ zscore.components.b_component.value
                      = Tenths(14, Val(fin[1].retainedearningsaccumulateddeficit))
               /\ zscore.components.c_component.value
                      = Tenths(33, Val(fin[1].operatingincomeloss)
                                   + Val(fin[1].interestexpensenonoperating))
               /\ zscore.components.e_component.value = Tenths(10, Val(fin[1].revenues))

\* C9 as amended: a ratio with a zero denominator is 0, so with total
\* liabilities 0 component D is 0 whatever the market capitalization, and
\* with total assets 0 components A, B, C and E are 0; the model returns a
\* normal result (no division failure).
C9_ZeroDenominatorZeroRatio ==
    zscore # Unset =>
        /\ "z_score" \in DOMAIN zscore
        /\ ZLiabilities = 0 =>
               /\ zscore.components.d_component.ratio = RatInt(0)
               /\ zscore.components.d_component.value = RatInt(0)
        /\ ZAssets = 0 =>
               /\ zscore.components.a_component.value = RatInt(0)
               /\ zscore.components.b_component.value = RatInt(0)
               /\ zscore.components.c_component.value = RatInt(0)
               /\ zscore.components.e_component.value = RatInt(0)
        /\ (ZLiabilities # 0 /\ ZAssets # 0) =>
               zscore.components.d_component.ratio = Rat(ZMarketCap, ZLiabilities)

\* no liabilities and no assets beside a market capitalization, revenue and
\* working capital
C9_Witness ==
    /\ Normal(zscore)
    /\ ZLiabilities = 0
    /\ ZAssets = 0
    /\ ZMarketCap = 40
    /\ Val(fin[1].revenues) = 299
    /\ Val(fin[1].assetscurrent) = 10

\* C10: the return decomposition has one entry for each of the first
\* min(n, 3) periods, in input order, and in every entry roe_calculated is
\* the product of that entry's net_margin, asset_turnover and
\* equity_multiplier (compared as fractions by cross-multiplication).
C10_FirstThreeYearsProduct ==
    dupont # Unset =>
        /\ "yearly_analysis" \in DOMAIN dupont
        /\ Len(dupont.yearly_analysis) = Min(Len(fin), 3)
        /\ \A i \in 1..Len(dupont.yearly_analysis) :
               LET e == dupont.yearly_analysis[i]
               IN  /\ e.date = fin[i].date
                   /\ e.components.net_income = fin[i].netincomeloss
                   /\ e.roe_calculated[1]
                          * (e.net_margin[2] * e.asset_turnover[2] * e.equity_multiplier[2])
                      = (e.net_margin[1] * e.asset_turnover[1] * e.equity_multiplier[1])
                          * e.roe_calculated[2]

\* four periods in, three entries out, the third with a non-zero product
C10_Witness ==
    /\ Normal(dupont)
    /\ Len(fin) = 4
    /\ Len(dupont.yearly_analysis) = 3
    /\ dupont.yearly_analysis[3].roe_calculated # RatInt(0)
    /\ dupont.yearly_analysis[1].roe_calculated = RatInt(0)

\* the figures the cash-flow model reads
CfOperating == Val(fin[1].netcashprovidedbyusedinoperatingactivities)

CfTotal ==
    Val(fin[1].netcashprovidedbyusedinoperatingactivities)
    + Val(fin[1].netcashprovidedbyusedininvestingactivities)
    + Val(fin[1].netcashprovidedbyusedinfinancingactivities)

CfCapex == Val(fin[1].paymentstoacquireproductiveassets)

\* C11: in the cash-flow model a zero divisor never causes a failure: with
\* net income exactly 0 the quality ratio is 0 whatever the operating cash
\* flow, and with the three flows summing to exactly 0 the operating,
\* investing and financing percentages are all 0.
C11_ZeroDivisorsGiveZero ==
    cashres # Unset =>
        /\ (fin[1].netincomeloss = Num(0) \/ CfTotal = 0) => Normal(cashres)
        /\ fin[1].netincomeloss = Num(0) =>
               cashres.cf_quality_ratio = RatInt(0)
        /\ CfTotal = 0 =>
               /\ cashres.structure_analysis.operating_percentage = RatInt(0)
               /\ cashres.structure_analysis.investing_percentage = RatInt(0)
               /\ cashres.structure_analysis.financing_percentage = RatInt(0)

\* net income 0 beside a non-zero operating cash flow, and non-zero flows
\* that cancel
C11_Witness ==
    /\ Normal(cashres)
    /\ fin[1].netincomeloss = Num(0)
    /\ CfOperating = 2
    /\ CfTotal = 0
    /\ cashres.cf_quality_ratio = RatInt(0)

\* C12: free cash flow is operating cash flow minus the absolute value of
\* capital expenditure, so the same record with capital expenditure of the
\* opposite sign gives the same free cash flow.
C12_FreeCashFlowAbsCapex ==
    Normal(cashres) =>
        /\ cashres.free_cash_flow = CfOperating - (IF CfCapex < 0 THEN -CfCapex ELSE CfCapex)
        /\ LET mirrored == [fin[1] EXCEPT !.paymentstoacquireproductiveassets = Num(-CfCapex)]
           IN  calculate_cashflow_analysis(<<mirrored>>).free_cash_flow
                   = cashres.free_cash_flow

\* a capital expenditure reported as a positive amount
C12_Witness ==
    /\ Normal(cashres)
    /\ CfCapex = 2
    /\ CfOperating = 1
    /\ cashres.free_cash_flow = -1

\* an issue of one normalized period: a critical field null, total assets
\* <= 0, revenues < 0
HasIssue(year_data) ==
    \/ \E f \in {"netincomeloss", "assets", "revenues", "stockholdersequity"} :
           IsNone(year_data[f])
    \/ (~IsNone(year_data.assets) /\ Val(year_data.assets) <= 0)
    \/ (~IsNone(year_data.revenues) /\ Val(year_data.revenues) < 0)

\* C13: on every sequence of period records validate_financial_data returns
\* exactly one of three verdicts: 'no data' iff the input is empty, otherwise
\* 'warnings present' with the itemized issues iff some period has an issue,
\* and 'validated' iff none has.
C13_ThreeVerdicts ==
    (pc \notin {"idle", "quality", "validate"}) =>
        /\ "verdict" \in DOMAIN validation
        /\ validation.verdict \in {"no data", "warnings", "validated"}
        /\ validation.verdict = "no data" <=> fin = <<>>
        /\ validation.verdict = "warnings"
               <=> (\E i \in 1..Len(fin) : HasIssue(fin[i]))
        /\ validation.verdict = "warnings" => validation.warnings # <<>>

Occurrences(q, x) == Cardinality({i \in 1..Len(q) : q[i] = x})

CriticalFieldFalsy ==
    \E i \in 1..Len(fin) :
        \E f \in {"netincomeloss", "assets", "revenues", "stockholdersequity"} :
            fin[i][f] \in {None, Num(0)}

FewerThanTwoPeriods == Len(fin) < 2

\* the first market-data entry holds no market-capitalization figure
MarketCapNotFound ==
    \/ enterprise = <<>>
    \/ "marketCapitalization" \notin DOMAIN enterprise[1]
    \/ enterprise[1].marketCapitalization = None

\* ... or holds the figure 0
MarketCapNotFoundOrZero ==
    MarketCapNotFound \/ enterprise[1].marketCapitalization = Num(0)

\* C14 as stated: the verdict is 'partially-missing' iff a critical field is
\* null or zero in some period, or fewer than 2 periods are available, or no
\* market-capitalization figure is found on the first market-data entry, and
\* 'good' otherwise; each of the two warnings is appended exactly when its
\* condition holds.
C14_VerdictFigureFound ==
    quality # Unset =>
        /\ quality.completeness = "partially-missing"
               <=> (CriticalFieldFalsy \/ FewerThanTwoPeriods \/ MarketCapNotFound)
        /\ quality.completeness \in {"partially-missing", "good"}
        /\ Occurrences(quality.warnings, "fewer than 2 periods")
               = (IF FewerThanTwoPeriods THEN 1 ELSE 0)
        /\ Occurrences(quality.warnings, "no market capitalization")
               = (IF MarketCapNotFound THEN 1 ELSE 0)

\* C14 as amended: the same with the market-capitalization condition being
\* that the figure is absent, null or zero.
C14_VerdictFigureFoundNonZero ==
    quality # Unset =>
        /\ quality.completeness = "partially-missing"
               <=> (CriticalFieldFalsy \/ FewerThanTwoPeriods \/ MarketCapNotFoundOrZero)
        /\ quality.completeness \in {"partially-missing", "good"}
        /\ Occurrences(quality.warnings, "fewer than 2 periods")
               = (IF FewerThanTwoPeriods THEN 1 ELSE 0)
        /\ Occurrences(quality.warnings, "no market capitalization")
               = (IF MarketCapNotFoundOrZero THEN 1 ELSE 0)
        /\ Len(quality.warnings) <= 2

\* two complete periods beside a market capitalization of 0: the only
\* shortcoming is the market-capitalization warning
C14_Witness ==
    /\ quality # Unset
    /\ Len(fin) = 2
    /\ ~CriticalFieldFalsy
    /\ enterprise = <<[marketCapitalization |-> Num(0)]>>
    /\ quality.completeness = "partially-missing"
    /\ quality.warnings = <<"no market capitalization">>

AllDated ==
    /\ \A i \in 1..Len(income) : "date" \in DOMAIN income[i]
    /\ \A i \in 1..Len(balance) : "date" \in DOMAIN balance[i]
    /\ \A i \in 1..Len(cashflow) : "date" \in DOMAIN cashflow[i]

NoCommonDate == AllDated /\ ~(\E d \in 1..(MaxDate + 1) : InAllThree(d))

\* C16: when the three collections have no date in common, one of them being
\* empty included, the merge returns an empty sequence and raises no error.
C16_NoCommonDateEmptyResult ==
    (pc # "idle" /\ NoCommonDate) => (fin = <<>> /\ pc # "raised")

\* three non-empty collections without a common date
C16_Witness ==
    /\ pc = "quality"
    /\ NoCommonDate
    /\ Len(income) = 2
    /\ Len(balance) = 1
    /\ Len(cashflow) = 2
    /\ fin = <<>>

\* the cash-flow source record of normalized period i
CashItem(i) == ByDate(cashflow, fin[i].date)

NullPrimary(item, primary) == primary \in DOMAIN item /\ item[primary] = None

\* C17: in the merge a cash-flow field whose primary source key is present
\* with a null value is normalized to zero; the alternate key is not
\* consulted even when it holds a value.
C17_NullPrimaryIsZero ==
    pc # "idle" =>
        \A i \in 1..Len(fin) :
            /\ NullPrimary(CashItem(i), "netCashProvidedByOperatingActivities")
                   => fin[i].netcashprovidedbyusedinoperatingactivities = Num(0)
            /\ NullPrimary(CashItem(i), "netCashProvidedByInvestingActivities")
                   => fin[i].netcashprovidedbyusedininvestingactivities = Num(0)
            /\ NullPrimary(CashItem(i), "netCashProvidedByFinancingActivities")
                   => fin[i].netcashprovidedbyusedinfinancingactivities = Num(0)

\* C18 as stated: with total assets 0 in the newest period the denominator
\* is replaced by 1, so the return-on-assets-positive test scores 1 iff
\* net income / 1 > 0.
C18_RoaPositiveOverOne ==
    (Normal(piotroski) /\ fin[1].assets = Num(0)) =>
        (piotroski.profitability_scores.roa_positive.score = 1
            <=> Val(fin[1].netincomeloss) > 0)

\* C18 as amended: with total assets 0 in the newest period the return on
\* assets is 0 and the return-on-assets-positive test scores 0 whatever the
\* net income; no division failure occurs.
C18_RoaPositiveZeroAssets ==
    (piotroski # Unset /\ fin[1].assets = Num(0)) =>
        /\ Normal(piotroski)
        /\ piotroski.profitability_scores.roa_positive.value = RatInt(0)
        /\ piotroski.profitability_scores.roa_positive.score = 0

\* a profit on total assets of 0
C18_Witness ==
    /\ Normal(piotroski)
    /\ fin[1].assets = Num(0)
    /\ Val(fin[1].netincomeloss) = 2
    /\ piotroski.profitability_scores.roa_positive.score = 0

\* C19 as stated: in every entry roe_calculated equals roe_direct whenever
\* stockholders' equity is not 0, revenue 0 and total assets 0 included.
C19_RoeEqualIfEquity ==
    Normal(dupont) =>
        \A i \in 1..Len(dupont.yearly_analysis) :
            fin[i].stockholdersequity # Num(0) =>
                dupont.yearly_analysis[i].roe_calculated
                    = dupont.yearly_analysis[i].roe_direct

\* C19 as amended: in every entry whose equity is not 0, the exact values of
\* roe_calculated and roe_direct are equal when revenue and total assets are
\* not 0 either; when revenue or total assets is 0, roe_calculated is 0
\* while roe_direct is net income / equity.
C19_RoeEqualIfNoZeroFactor ==
    Normal(dupont) =>
        \A i \in 1..Len(dupont.yearly_analysis) :
            LET e == dupont.yearly_analysis[i]
            IN  fin[i].stockholdersequity # Num(0) =>
                    /\ e.roe_direct[1] * Val(fin[i].stockholdersequity)
                           = Val(fin[i].netincomeloss) * e.roe_direct[2]
                    /\ (fin[i].revenues # Num(0) /\ fin[i].assets # Num(0))
                           => e.roe_calculated = e.roe_direct
                    /\ (fin[i].revenues = Num(0) \/ fin[i].assets = Num(0))
                           => e.roe_calculated = RatInt(0)

\* a newest period with revenue 0 and one without assets, both with equity
\* and a non-zero direct return, beside a period with all figures non-zero
C19_Witness ==
    /\ Normal(dupont)
    /\ Len(dupont.yearly_analysis) = 3
    /\ fin[1].revenues = Num(0) /\ fin[1].stockholdersequity = Num(4)
    /\ dupont.yearly_analysis[1].roe_direct # RatInt(0)
    /\ fin[2].assets = Num(0) /\ fin[2].stockholdersequity = Num(4)
    /\ fin[3].revenues = Num(4) /\ fin[3].assets = Num(8)
    /\ dupont.yearly_analysis[3].roe_calculated = <<-1, 4>>

\* the source field of a critical field is omitted or null in the source
\* record of normalized period i
SourceMissing(data, i, key) ==
    LET item == ByDate(data, fin[i].date)
    IN  key \notin DOMAIN item \/ item[key] = None

MissingReported(i, field) ==
    \E k \in 1..Len(validation.warnings) :
        validation.warnings[k] = [kind |-> "missing", field |-> field, year |-> fin[i].date]

\* C20: when the validator runs on the merge's output, a missing-field issue
\* naming a critical field and a period is reported iff that field was
\* missing (omitted or null) in the period's source record, before
\* zero-defaulting.
C20_MissingBeforeDefaultingFlagged ==
    (validation # Unset /\ "verdict" \in DOMAIN validation) =>
        \A i \in 1..Len(fin) :
            LET reported(field) ==
                    validation.verdict = "warnings" /\ MissingReported(i, field)
            IN  /\ reported("netincomeloss") <=> SourceMissing(income, i, "netIncome")
                /\ reported("revenues") <=> SourceMissing(income, i, "revenue")
                /\ reported("assets") <=> SourceMissing(balance, i, "totalAssets")
                /\ reported("stockholdersequity")
                       <=> SourceMissing(balance, i, "totalStockholdersEquity")


AnomalyReported(i, field) ==
    \E k \in 1..Len(validation.warnings) :
        validation.warnings[k] = [kind |-> "anomaly", field |-> field, year |-> fin[i].date]

\* the validator returned one of its verdicts
Verdict == validation # Unset /\ "verdict" \in DOMAIN validation

\* C21: for each period the validator reports a total-assets anomaly iff
\* total assets <= 0, exactly 0 and a value the source omits included, and a
\* revenue anomaly iff revenues < 0; revenue exactly 0 is not an anomaly.
C21_AnomaliesIff ==
    Verdict =>
        \A i \in 1..Len(fin) :
            LET reported(field) ==
                    validation.verdict = "warnings" /\ AnomalyReported(i, field)
            IN  /\ reported("assets") <=> Val(fin[i].assets) <= 0
                /\ reported("revenues") <=> Val(fin[i].revenues) < 0
                /\ "totalAssets" \notin DOMAIN ByDate(balance, fin[i].date)
                       => reported("assets")
                /\ AssetsIssue(Bare(fin[i].date)) # <<>>
                /\ RevenuesIssue(Bare(fin[i].date)) = <<>>

\* total assets 0 and revenue 0 in the newest period, total assets omitted
\* and revenue negative in the prior one
C21_Witness ==
    /\ Verdict
    /\ Len(fin) = 2
    /\ fin[1].assets = Num(0) /\ fin[1].revenues = Num(0)
    /\ AnomalyReported(1, "assets") /\ ~AnomalyReported(1, "revenues")
    /\ "totalAssets" \notin DOMAIN balance[2]
    /\ fin[2].revenues = Num(-1)
    /\ AnomalyReported(2, "assets") /\ AnomalyReported(2, "revenues")


\* the value of a source field, 0 when the record omits it
SourceValue(item, key) == IF key \in DOMAIN item THEN item[key] ELSE Num(0)

\* the primary source field when that key is present, else the alternate
\* source field when that key is present, else 0
PrimaryElseAlternate(item, primary, alternate) ==
    IF primary \in DOMAIN item THEN item[primary]
    ELSE IF alternate \in DOMAIN item THEN item[alternate]
    ELSE Num(0)

\* the fields with a single source field
SingleSourceFields(i) ==
    LET inc == ByDate(income, fin[i].date)
        bal == ByDate(balance, fin[i].date)
        cf == ByDate(cashflow, fin[i].date)
    IN  /\ fin[i].revenues = SourceValue(inc, "revenue")
        /\ fin[i].grossprofit = SourceValue(inc, "grossProfit")
        /\ fin[i].operatingincomeloss = SourceValue(inc, "operatingIncome")
        /\ fin[i].netincomeloss = SourceValue(inc, "netIncome")
        /\ fin[i].interestexpensenonoperating = SourceValue(inc, "interestExpense")
        /\ fin[i].incomelossfromcontinuingoperationsbeforeincometaxes
               = SourceValue(inc, "incomeBeforeTax")
        /\ fin[i].weightedaveragenumberofsharesoutstandingbasic
               = SourceValue(inc, "weightedAverageShsOut")
        /\ fin[i].assets = SourceValue(bal, "totalAssets")
        /\ fin[i].liabilities = SourceValue(bal, "totalLiabilities")
        /\ fin[i].stockholdersequity = SourceValue(bal, "totalStockholdersEquity")
        /\ fin[i].assetscurrent = SourceValue(bal, "totalCurrentAssets")
        /\ fin[i].liabilitiescurrent = SourceValue(bal, "totalCurrentLiabilities")
        /\ fin[i].retainedearningsaccumulateddeficit = SourceValue(bal, "retainedEarnings")
        /\ fin[i].longtermdebtnoncurrent = SourceValue(bal, "longTermDebt")
        /\ fin[i].paymentstoacquireproductiveassets = SourceValue(cf, "capitalExpenditure")
        /\ fin[i].purchasesofpropertyandequipmentandintangibleassets
               = SourceValue(cf, "capitalExpenditure")

OperatingAndFinancing(i) ==
    LET cf == ByDate(cashflow, fin[i].date)
    IN  /\ fin[i].netcashprovidedbyusedinoperatingactivities
               = PrimaryElseAlternate(cf, "netCashProvidedByOperatingActivities",
                                      "operatingCashFlow")
        /\ fin[i].netcashprovidedbyusedinfinancingactivities
               = PrimaryElseAlternate(cf, "netCashProvidedByFinancingActivities",
                                      "netCashUsedProvidedByFinancingActivities")

\* C22 as stated: every normalized numeric field equals the value of its
\* mapped source field and is 0 when the source record omits that field
\* (the investing cash flow included); the operating and the financing cash
\* flow are the primary source field when that key is present, else the
\* alternate source field when that key is present, else 0.
C22_TwoFieldsFallBack ==
    pc # "idle" =>
        \A i \in 1..Len(fin) :
            /\ SingleSourceFields(i)
            /\ OperatingAndFinancing(i)
            /\ fin[i].netcashprovidedbyusedininvestingactivities
                   = SourceValue(ByDate(cashflow, fin[i].date),
                                 "netCashProvidedByInvestingActivities")

\* C22 as amended: the same, with the investing cash flow being a third
\* field taken from its primary source field when that key is present, else
\* from its alternate source field when that key is present, else 0.
C22_ThreeFieldsFallBack ==
    pc # "idle" =>
        \A i \in 1..Len(fin) :
            /\ SingleSourceFields(i)
            /\ OperatingAndFinancing(i)
            /\ fin[i].netcashprovidedbyusedininvestingactivities
                   = PrimaryElseAlternate(ByDate(cashflow, fin[i].date),
                                          "netCashProvidedByInvestingActivities",
                                          "netCashUsedForInvestingActivites")

\* a cash-flow record with the operating figure under its primary key and
\* the investing and financing figures under their alternate keys only
C22_Witness ==
    /\ pc = "quality"
    /\ Len(fin) = 1
    /\ "netCashProvidedByOperatingActivities" \in DOMAIN cashflow[1]
    /\ cashflow[1].netCashProvidedByOperatingActivities = Num(3)
    /\ "operatingCashFlow" \in DOMAIN cashflow[1]
    /\ "netCashProvidedByInvestingActivities" \notin DOMAIN cashflow[1]
    /\ "netCashProvidedByFinancingActivities" \notin DOMAIN cashflow[1]
    /\ "capitalExpenditure" \notin DOMAIN cashflow[1]
    /\ fin[1].netcashprovidedbyusedinoperatingactivities = Num(3)
    /\ fin[1].netcashprovidedbyusedininvestingactivities = Num(-5)
    /\ fin[1].netcashprovidedbyusedinfinancingactivities = Num(-6)
    /\ fin[1].paymentstoacquireproductiveassets = Num(0)


\* record lists that start with the first n records of the normalized
\* records and go on with other, older periods, or with none
SameNewest(n) ==
    LET older(p) == MergedItem(0, ProfileIncome(0, p), ProfileBalance(0, p),
                               ProfileCash(0, p))
    IN  {SubSeq(fin, 1, n)}
        \cup {SubSeq(fin, 1, n) \o <<older(p)>> : p \in Profiles}
        \cup {SubSeq(fin, 1, n) \o <<older(p), older(q)>> : p \in Profiles, q \in Profiles}

\* C23: each model's result depends only on the newest periods it uses: a
\* record list that agrees with the analysed one on the first record (with
\* the same market data) gives the same risk-index result and the same
\* cash-flow result; one of length >= 2 that agrees on the first two records
\* gives the same scorecard result; one that agrees on the first three
\* records gives the same return-decomposition result.
C23_NewestPeriodsOnly ==
    /\ zscore # Unset =>
           \A other \in SameNewest(1) : calculate_altman_zscore(other, enterprise) = zscore
    /\ cashres # Unset =>
           \A other \in SameNewest(1) : calculate_cashflow_analysis(other) = cashres
    /\ (piotroski # Unset /\ Len(fin) >= 2) =>
           \A other \in SameNewest(2) : calculate_piotroski_fscore(other) = piotroski
    /\ (dupont # Unset /\ Len(fin) >= 3) =>
           \A other \in SameNewest(3) : calculate_dupont_analysis(other) = dupont

\* four periods analysed by the four models, the oldest with a null net
\* income, the third unlike the first two
C23_Witness ==
    /\ pc = "assemble"
    /\ Len(fin) = 4
    /\ fin[4].netincomeloss = None
    /\ fin[3].revenues = Num(7)
    /\ fin[2].revenues # Num(7)
    /\ Normal(piotroski) /\ Normal(zscore) /\ Normal(dupont) /\ Normal(cashres)
    /\ Len(dupont.yearly_analysis) = 3


\* the magnitudes of the three factors' changes between the two newest
\* entries of the yearly analysis
Magnitude(factor) ==
    RatAbs(RatSub(dupont.yearly_analysis[1][factor], dupont.yearly_analysis[2][factor]))

Largest(factor) ==
    \A other \in {"net_margin", "asset_turnover", "equity_multiplier"} :
        RatGE(Magnitude(factor), Magnitude(other))

\* C24: the primary driver is the factor among net margin, asset turnover
\* and equity multiplier whose absolute change between the two newest
\* periods is largest; of two or three factors with exactly equal largest
\* magnitudes, all changes being 0 included, the earliest in that order is
\* returned.
C24_PrimaryDriverFirstLargest ==
    (Normal(dupont) /\ Len(dupont.yearly_analysis) >= 2) =>
        LET driver == dupont.trend_analysis.primary_driver
        IN  /\ driver \in {"net_margin", "asset_turnover", "equity_multiplier"}
            /\ Largest(driver)
            /\ driver = "asset_turnover" => ~Largest("net_margin")
            /\ driver = "equity_multiplier"
                   => ~Largest("net_margin") /\ ~Largest("asset_turnover")
            /\ dupont.trend_analysis.net_margin_change
                   = RatSub(dupont.yearly_analysis[1].net_margin,
                            dupont.yearly_analysis[2].net_margin)

\* asset turnover and equity multiplier change by the same amount, net
\* margin by less
C24_Witness ==
    /\ Normal(dupont)
    /\ Len(dupont.yearly_analysis) = 2
    /\ Magnitude("asset_turnover") = Magnitude("equity_multiplier")
    /\ RatGT(Magnitude("asset_turnover"), Magnitude("net_margin"))
    /\ dupont.trend_analysis.primary_driver = "asset_turnover"


\* ten times the sum of the four weighted numerators over total assets
AssetNumerators ==
    12 * (Val(fin[1].assetscurrent) - Val(fin[1].liabilitiescurrent))
    + 14 * Val(fin[1].retainedearningsaccumulateddeficit)
    + 33 * (Val(fin[1].operatingincomeloss) + Val(fin[1].interestexpensenonoperating))
    + 10 * Val(fin[1].revenues)

\* C25: with non-zero total assets and non-zero total liabilities in the
\* newest period the risk index is 1.2 x (current assets - current
\* liabilities)/assets + 1.4 x retained earnings/assets + 3.3 x (operating
\* income + interest expense)/assets + 0.6 x market cap/liabilities + 1.0 x
\* revenue/assets, the interest expense added with its sign, the market cap
\* being the first market-data entry's figure, or 0 when there is no entry
\* or the entry has no figure (the two sides compared by
\* cross-multiplication).
C25_IndexFormula ==
    (zscore # Unset /\ ZAssets # 0 /\ ZLiabilities # 0) =>
        /\ Normal(zscore)
        /\ zscore.z_score[1] * (10 * ZAssets * ZLiabilities)
               = zscore.z_score[2]
                 * (AssetNumerators * ZLiabilities + 6 * ZMarketCap * ZAssets)
        /\ zscore.detailed_data.market_cap = Num(ZMarketCap)

\* a negative interest expense beside a market-data entry without a
\* market-capitalization figure
C25_Witness ==
    /\ Normal(zscore)
    /\ ZAssets = 100 /\ ZLiabilities = 50
    /\ Val(fin[1].interestexpensenonoperating) = -1
    /\ Val(fin[1].operatingincomeloss) = 10
    /\ enterprise = <<[symbol |-> "TSM"]>>
    /\ zscore.components.c_component.value = Rat(297, 1000)
    /\ zscore.components.d_component.value = RatInt(0)


\* the year-over-year ratio tests of a scorecard result that need a ratio
\* above the prior one, each with the ratios it reports
RatioTests(r) ==
    << r.profitability_scores.roa_improvement,
       r.leverage_scores.current_ratio_improvement,
       r.efficiency_scores.gross_margin_improvement,
       r.efficiency_scores.asset_turnover_improvement >>

\* the six year-over-year scores of a scorecard result, no-dilution last
ComparisonScores(r) ==
    << r.profitability_scores.roa_improvement.score,
       r.leverage_scores.debt_ratio_improvement.score,
       r.leverage_scores.current_ratio_improvement.score,
       r.efficiency_scores.gross_margin_improvement.score,
       r.efficiency_scores.asset_turnover_improvement.score,
       r.leverage_scores.no_dilution.score >>

\* C26: the no-dilution test scores 1 iff the newest period's share count is
\* less than or equal to the prior period's, equal counts scoring 1; the
\* five year-over-year ratio tests (ROA improved, debt ratio decreased,
\* current ratio increased, gross margin increased, asset turnover
\* increased) are strict and score 0 on equal ratios; so on two identical
\* periods the only comparison test that scores is no-dilution.
C26_NoDilutionNotStrict ==
    Normal(piotroski) =>
        /\ piotroski.leverage_scores.no_dilution.score
               = (IF Val(fin[1].weightedaveragenumberofsharesoutstandingbasic)
                        <= Val(fin[2].weightedaveragenumberofsharesoutstandingbasic)
                  THEN 1 ELSE 0)
        /\ \A k \in 1..Len(RatioTests(piotroski)) :
               LET test == RatioTests(piotroski)[k]
               IN  test.score = (IF RatGT(test.current, test.previous) THEN 1 ELSE 0)
        /\ LET test == piotroski.leverage_scores.debt_ratio_improvement
           IN  test.score = (IF RatLT(test.current, test.previous) THEN 1 ELSE 0)
        /\ ComparisonScores(calculate_piotroski_fscore(<<fin[1], fin[1]>>))
               = <<0, 0, 0, 0, 0, 1>>

\* two periods with the same share count and the same five ratios, none of
\* them 0
C26_Witness ==
    /\ Normal(piotroski)
    /\ fin[1].weightedaveragenumberofsharesoutstandingbasic = Num(2)
    /\ fin[2].weightedaveragenumberofsharesoutstandingbasic = Num(2)
    /\ \A k \in 1..Len(RatioTests(piotroski)) :
           /\ RatioTests(piotroski)[k].current = RatioTests(piotroski)[k].previous
           /\ RatioTests(piotroski)[k].current # RatInt(0)
    /\ piotroski.leverage_scores.debt_ratio_improvement.current
           = piotroski.leverage_scores.debt_ratio_improvement.previous
    /\ ComparisonScores(piotroski) = <<0, 0, 0, 0, 0, 1>>


\* the tier of a quality ratio num/den (den > 0), by its tenths
TierOf(r) ==
    IF 10 * r[1] >= 12 * r[2] THEN "excellent"
    ELSE IF 10 * r[1] >= 10 * r[2] THEN "good"
    ELSE IF 10 * r[1] >= 8 * r[2] THEN "fair"
    ELSE "needs attention"

\* C27: the quality tier is a function of the quality ratio r alone:
\* 'excellent' if r >= 1.2, 'good' if 1.0 <= r < 1.2, 'fair' if
\* 0.8 <= r < 1.0, 'needs attention' if r < 0.8; the boundary values 1.2,
\* 1.0 and 0.8 fall in the higher tier, and a net income of 0 always gives
\* 'needs attention'.
C27_TierByRatio ==
    cashres # Unset =>
        /\ Normal(cashres)
        /\ cashres.cf_quality_ratio[2] > 0
        /\ cashres.quality_assessment = TierOf(cashres.cf_quality_ratio)
        /\ cashres.cf_quality_ratio = Rat(12, 10) => cashres.quality_assessment = "excellent"
        /\ cashres.cf_quality_ratio = Rat(10, 10) => cashres.quality_assessment = "good"
        /\ cashres.cf_quality_ratio = Rat(8, 10) => cashres.quality_assessment = "fair"
        /\ fin[1].netincomeloss = Num(0) => cashres.quality_assessment = "needs attention"

\* operating cash flow 12 on a net income of 10: the ratio is exactly 1.2
C27_Witness ==
    /\ Normal(cashres)
    /\ CfOperating = 12
    /\ fin[1].netincomeloss = Num(10)
    /\ cashres.cf_quality_ratio = Rat(12, 10)
    /\ cashres.quality_assessment = "excellent"


\* some normalized record has a null total-assets or a null revenue value
NullAssetsOrRevenues ==
    \E i \in 1..Len(fin) : fin[i].assets = None \/ fin[i].revenues = None

\* C28: bundle assembly is not total over normalized records: if any record
\* has a null total-assets or null revenue value, validate_financial_data
\* raises instead of returning a verdict, and
\* prepare_comprehensive_analysis_data then raises to its caller and returns
\* no bundle, although each of the four scoring models returns a result or
\* an error result on the same records without raising.
C28_NullAssetsNoBundle ==
    (pc \notin {"idle", "quality", "validate"} /\ NullAssetsOrRevenues) =>
        /\ Raised(validation)
        /\ pc = "raised"
        /\ Raised(bundle)
        /\ ModelOutcome(calculate_piotroski_fscore(fin), "total_score")
        /\ ModelOutcome(calculate_altman_zscore(fin, enterprise), "z_score")
        /\ ModelOutcome(calculate_dupont_analysis(fin), "yearly_analysis")
        /\ ModelOutcome(calculate_cashflow_analysis(fin), "cf_quality_ratio")

\* a null total-assets value in the newest of two periods: no bundle, while
\* the cash-flow model gives a normal result and the risk index an error
\* result on these records
C28_Witness ==
    /\ pc = "raised"
    /\ Len(fin) = 2
    /\ fin[1].assets = None
    /\ fin[2].assets = Num(20)
    /\ Raised(bundle)
    /\ Normal(calculate_cashflow_analysis(fin))
    /\ "error" \in DOMAIN calculate_altman_zscore(fin, enterprise)


\* the reporter's census lists the field with the date of period i
CensusLists(i, field) ==
    \E k \in 1..Len(quality.missing_fields) :
        /\ quality.missing_fields[k].field = field
        /\ \E y \in 1..Len(quality.missing_fields[k].years) :
               quality.missing_fields[k].years[y] = fin[i].date

\* C29: the two quality verdicts are related in one direction only: whenever
\* the validator reports a missing-field issue for a field and period, the
\* reporter's census lists that field with that period's date and its
\* verdict is 'partially-missing'; the reporter's verdict can be 'good'
\* while the validator returns 'warnings present', and then there are at
\* least 2 periods, the market cap is present, every critical field is
\* non-null and non-zero, and some period has a negative total assets or a
\* negative revenue.
C29_MissingImpliesCensus ==
    Verdict =>
        /\ validation.verdict = "warnings" =>
               \A i \in 1..Len(fin) :
                   \A f \in {"netincomeloss", "assets", "revenues", "stockholdersequity"} :
                       MissingReported(i, f) =>
                           /\ CensusLists(i, f)
                           /\ quality.completeness = "partially-missing"
        /\ (quality.completeness = "good" /\ validation.verdict = "warnings") =>
               /\ Len(fin) >= 2
               /\ ~MarketCapNotFoundOrZero
               /\ ~CriticalFieldFalsy
               /\ \E i \in 1..Len(fin) :
                      Val(fin[i].assets) < 0 \/ Val(fin[i].revenues) < 0

\* the reporter's verdict is 'good' and the validator's 'warnings present':
\* two periods, a market cap, a negative revenue in the prior period
C29_Witness ==
    /\ Verdict
    /\ quality.completeness = "good"
    /\ validation.verdict = "warnings"
    /\ Len(fin) = 2
    /\ fin[2].revenues = Num(-1)
    /\ Val(fin[1].assets) > 0 /\ Val(fin[2].assets) > 0
    /\ AnomalyReported(2, "revenues")


TierNetIncome == Val(fin[1].netincomeloss)

\* net income and operating cash flow both negative, the operating cash
\* flow at least 1.2 times the net income in magnitude
BothNegativeLargeFlow ==
    /\ TierNetIncome < 0
    /\ CfOperating < 0
    /\ 10 * (-CfOperating) >= 12 * (-TierNetIncome)

\* exactly one of the two is negative ...
OneNegative == (TierNetIncome < 0) # (CfOperating < 0)

\* ... and the other is positive
OppositeSigns ==
    \/ TierNetIncome < 0 /\ CfOperating > 0
    \/ TierNetIncome > 0 /\ CfOperating < 0

RatioAtLeastExcellent ==
    10 * cashres.cf_quality_ratio[1] >= 12 * cashres.cf_quality_ratio[2]

\* C30 as stated: the tier ignores the signs of its inputs: with net income
\* and operating cash flow both negative and the operating cash flow at
\* least 1.2 times the net income in magnitude the quality ratio is >= 1.2
\* and the tier is 'excellent'; with exactly one of the two negative the
\* ratio is negative and the tier is 'needs attention'.
C30_OneNegativeRatioNegative ==
    Normal(cashres) =>
        /\ BothNegativeLargeFlow =>
               RatioAtLeastExcellent /\ cashres.quality_assessment = "excellent"
        /\ OneNegative =>
               /\ cashres.cf_quality_ratio[1] < 0
               /\ cashres.quality_assessment = "needs attention"

\* C30 as amended: the same for two negative figures; with one of the two
\* negative and the other positive the ratio is negative, with one negative
\* and the other 0 the ratio is 0, and in both cases the tier is 'needs
\* attention'.
C30_OppositeSignsRatioNegative ==
    cashres # Unset =>
        /\ Normal(cashres)
        /\ BothNegativeLargeFlow =>
               RatioAtLeastExcellent /\ cashres.quality_assessment = "excellent"
        /\ OppositeSigns => cashres.cf_quality_ratio[1] < 0
        /\ (OneNegative /\ ~OppositeSigns) => cashres.cf_quality_ratio = RatInt(0)
        /\ OneNegative => cashres.quality_assessment = "needs attention"

\* a loss of 10 beside an operating cash outflow of 12
C30_Witness ==
    /\ Normal(cashres)
    /\ TierNetIncome = -10
    /\ CfOperating = -12
    /\ cashres.cf_quality_ratio = Rat(12, 10)
    /\ cashres.quality_assessment = "excellent"

====
